---- MODULE Spec2Model ----
(***************************************************************************)
(* pytest-isolated: the parent process plans groups of isolated tests,     *)
(* runs every group in a worker subprocess, reads the JSONL side-channel   *)
(* file the worker wrote, reconciles it with the worker's exit status and  *)
(* replays the outcome as reports in the parent.                           *)
(*                                                                         *)
(* Strings are kept as strings; a formatted message is the sequence of its *)
(* pieces (a piece is a literal fragment or a formatted number), so that   *)
(* "the message contains X" is a test on pieces.                           *)
(***************************************************************************)
EXTENDS Integers, Sequences, FiniteSets, TLC

VARIABLES
    environ,         \* os.environ.get(SUBPROC_ENV) in the process that runs the hooks
    collection,      \* items handed to pytest_collection_modifyitems (collector order)
    option,          \* command line / ini values the plugin reads
    cfg_groups,      \* config._subprocess_groups: OrderedDict key -> nodeids
    cfg_timeouts,    \* config._subprocess_group_timeouts: key -> timeout or None
    session_items,   \* session.items: the final filtered and ordered nodeids
    testsfailed,     \* session.testsfailed
    groups,          \* pytest_runtestloop: filtered_groups
    normal_items,    \* pytest_runtestloop: normal_items
    default_timeout, \* pytest_runtestloop: default_timeout
    pc,              \* position of the parent in its hooks
    gi,              \* index of the group the loop is at
    file,            \* the side-channel file of the current group
    worker,          \* the worker subprocess
    result,          \* SubprocessResult of the last worker
    results,         \* TestResults parsed from the side-channel file
    reports,         \* reports emitted in the parent (pytest_runtest_logreport calls)
    launched,        \* the subprocess.run calls made so far
    native_run,      \* items run in-process by pytest_runtest_protocol
    observed,        \* value of the process-global counter each test body read
    ret,             \* return value of pytest_runtestloop
    parsed,          \* history: what _parse_results returned for the current group
    procs,           \* live processes started by the workers' tests
    report           \* the pytest.TestReport the worker's hook is called with

vars == <<procs, report, environ, collection, option, cfg_groups, cfg_timeouts, session_items, testsfailed,
          groups, normal_items, default_timeout, pc, gi, file, worker, result,
          results, reports, launched, native_run, observed, ret, parsed>>

----------------------------------------------------------------------------
(* Bounds of the model *)

(* --maxfail ranges over 0..MaxFail (0: no limit) *)
MaxFail == 1
(* the lines of a side-channel file parsed on its own *)
MaxLines == 3

(* Program constants *)

(* a variant that replays the call phase first *)
Mut_Phases == <<"call", "setup", "teardown">>

DEFAULT_TIMEOUT == 300
(* Python's None where an integer may stand (timeouts) *)
None == -1

Phases == <<"setup", "call", "teardown">>

----------------------------------------------------------------------------
(* Sequence helpers *)

Range(s) == {s[i] : i \in 1..Len(s)}

RECURSIVE Join(_, _)
Join(parts, sep) ==
    IF Len(parts) = 0 THEN ""
    ELSE IF Len(parts) = 1 THEN parts[1]
    ELSE parts[1] \o sep \o Join(Tail(parts), sep)

RECURSIVE Filter(_, _)
Filter(s, keep) ==
    IF s = <<>> THEN <<>>
    ELSE IF s[1] \in keep THEN <<s[1]>> \o Filter(Tail(s), keep)
    ELSE Filter(Tail(s), keep)

RECURSIVE Flatten(_)
Flatten(ss) == IF ss = <<>> THEN <<>> ELSE ss[1] \o Flatten(Tail(ss))

(* the pieces of msg contain the pieces of sub, adjacent and in order *)
Contains(msg, sub) ==
    \E i \in 0..(Len(msg) - Len(sub)) : \A j \in 1..Len(sub) : msg[i + j] = sub[j]

----------------------------------------------------------------------------
(* Items and markers *)

NoKwargs == [has_group |-> FALSE, group |-> "", has_timeout |-> FALSE, timeout |-> None]
NoMarker == [present |-> FALSE, args |-> <<>>, kwargs |-> NoKwargs]
Mark(args, kwargs) == [present |-> TRUE, args |-> args, kwargs |-> kwargs]
KwGroup(g) == [NoKwargs EXCEPT !.has_group = TRUE, !.group = g]
KwTimeout(t) == [NoKwargs EXCEPT !.has_timeout = TRUE, !.timeout = t]
KwGroupTimeout(g, t) == [has_group |-> TRUE, group |-> g, has_timeout |-> TRUE, timeout |-> t]

(* An item: the "::" parts of its nodeid, whether it is a pytest.Function, the
   isolated marker applied to the function, to its class and to its module, and
   whether it carries an xfail marker. *)
Item(parts, own, cls, mod, xf) ==
    [parts |-> parts, isFunction |-> TRUE, own |-> own, cls |-> cls, mod |-> mod, xfail |-> xf]

nodeid(it) == Join(it.parts, "::")

(* item.get_closest_marker("isolated"): own markers first, then the class, then the module *)
get_closest_marker(it) ==
    IF it.own.present THEN it.own
    ELSE IF it.cls.present THEN it.cls
    ELSE it.mod

(* a variant that does not tell the item's own marker from an inherited one *)
Mut_has_own_isolated_marker(it) == FALSE

_has_own_isolated_marker(it) == it.own.present

HasClass(it) == Len(it.parts) >= 3

----------------------------------------------------------------------------
(* Python dicts (insertion ordered), as sequences of entries *)

Entry(k, v) == [key |-> k, val |-> v]
Keys(d) == {d[i].key : i \in 1..Len(d)}
KeySeq(d) == [i \in 1..Len(d) |-> d[i].key]
DictGet(d, k, dflt) ==
    IF k \in Keys(d) THEN d[CHOOSE i \in 1..Len(d) : d[i].key = k].val ELSE dflt
(* d[k] = v *)
DictSet(d, k, v) ==
    IF k \in Keys(d)
    THEN [i \in 1..Len(d) |-> IF d[i].key = k THEN Entry(k, v) ELSE d[i]]
    ELSE Append(d, Entry(k, v))
(* d.pop(k, None) *)
DictPop(d, k) ==
    LET keep == {i \in 1..Len(d) : d[i].key # k}
        F[i \in 0..Len(d)] ==
            IF i = 0 THEN <<>>
            ELSE IF i \in keep THEN Append(F[i - 1], d[i]) ELSE F[i - 1]
    IN F[Len(d)]
(* d.setdefault(k, []).append(x) *)
DictAppend(d, k, x) == DictSet(d, k, Append(DictGet(d, k, <<>>), x))

(* a or b, on timeouts: None and 0 are falsy *)
Or(a, b) == IF a = None \/ a = 0 THEN b ELSE a

----------------------------------------------------------------------------
(* The worker's command line. An argument is the sequence of its pieces: a
   plain argument has one, an argument of the form option=value has the
   option, "=" and the value *)

_FORWARD_FLAGS ==
    {"-v", "--verbose", "-q", "--quiet", "-s", "-l", "--showlocals", "--strict-markers",
     "--strict-config", "-x", "--exitfirst"}

_FORWARD_OPTIONS_WITH_VALUE == {"--tb", "-r", "--capture"}

(* "pytest -v tests/" *)
DefaultArgs == <<<<"-v">>, <<"tests/">>>>

(* arg in a set of strings; arg.startswith(opt + "=") for one of the options *)
ArgIn(arg, names) == Len(arg) = 1 /\ arg[1] \in names
StartsWithOption(arg) ==
    Len(arg) >= 2 /\ arg[1] \in _FORWARD_OPTIONS_WITH_VALUE /\ arg[2] = "="

(* a variant that forwards every argument *)
Mut_build_forwarded_args(args) == args

(* the while loop of _build_forwarded_args, from index i (lines 59-80) *)
RECURSIVE ForwardFrom(_, _)
ForwardFrom(args, i) ==
    IF i > Len(args) THEN <<>>
    ELSE IF ArgIn(args[i], _FORWARD_FLAGS)
    THEN <<args[i]>> \o ForwardFrom(args, i + 1)
    ELSE IF ArgIn(args[i], _FORWARD_OPTIONS_WITH_VALUE)
    THEN IF i + 1 <= Len(args)
         THEN <<args[i], args[i + 1]>> \o ForwardFrom(args, i + 2)
         ELSE <<args[i]>> \o ForwardFrom(args, i + 1)
    ELSE IF StartsWithOption(args[i])
    THEN <<args[i]>> \o ForwardFrom(args, i + 1)
    ELSE ForwardFrom(args, i + 1)

_build_forwarded_args(args) == ForwardFrom(args, 1)

(* sys.executable and config.rootpath *)
Executable == <<"python">>
Rootpath == <<"/project">>

(* lines 446-462: interpreter, forwarded arguments, --rootdir, the nodeids *)
Cmd(opt, nodeids) ==
    <<Executable, <<"-u">>, <<"-m">>, <<"pytest">>>>
    \o _build_forwarded_args(opt.args)
    \o <<<<"--rootdir">>, Rootpath>>
    \o [i \in 1..Len(nodeids) |-> <<nodeids[i]>>]

----------------------------------------------------------------------------
(* grouping.py: pytest_collection_modifyitems *)

(* a variant that keys every item by its own nodeid *)
Mut_GroupOf(it, m) == nodeid(it)

(* the group of one item, lines 53-87 *)
GroupOf(it, m) ==
    LET explicit ==
            IF m.present /\ Len(m.args) > 0 THEN m.args[1]
            ELSE IF m.present /\ m.kwargs.has_group THEN m.kwargs.group
            ELSE ""
        has_explicit == m.present /\ (Len(m.args) > 0 \/ m.kwargs.has_group)
    IN  IF has_explicit THEN explicit
        ELSE IF ~m.present THEN nodeid(it)
        ELSE IF it.isFunction THEN
            IF _has_own_isolated_marker(it) THEN nodeid(it)
            ELSE IF HasClass(it) /\ it.cls.present
                 THEN (IF Len(it.parts) >= 3 THEN Join(SubSeq(it.parts, 1, 2), "::")
                       ELSE nodeid(it))
            ELSE IF it.mod.present THEN it.parts[1]
            ELSE nodeid(it)
        ELSE nodeid(it)

(* a variant in which the last marker of a group sets its timeout *)
Mut_PlanItem(acc, it, run_all_isolated) ==
    LET m == get_closest_marker(it) IN
    IF ~m.present /\ ~run_all_isolated THEN acc
    ELSE
        LET group_key == GroupOf(it, m)
            timeout == IF m.present /\ m.kwargs.has_timeout THEN m.kwargs.timeout ELSE None
        IN  [groups |-> DictAppend(acc.groups, group_key, nodeid(it)),
             timeouts |-> DictSet(acc.timeouts, group_key, timeout)]

(* one iteration of the loop over items, lines 46-95 *)
PlanItem(acc, it, run_all_isolated) ==
    LET m == get_closest_marker(it) IN
    IF ~m.present /\ ~run_all_isolated THEN acc
    ELSE
        LET group_key == GroupOf(it, m)
            timeout == IF m.present /\ m.kwargs.has_timeout THEN m.kwargs.timeout ELSE None
        IN  [groups |-> DictAppend(acc.groups, group_key, nodeid(it)),
             timeouts |-> IF group_key \notin Keys(acc.timeouts)
                          THEN DictSet(acc.timeouts, group_key, timeout)
                          ELSE acc.timeouts]

RECURSIVE PlanItems(_, _, _)
PlanItems(acc, items, run_all_isolated) ==
    IF items = <<>> THEN acc
    ELSE PlanItems(PlanItem(acc, items[1], run_all_isolated), Tail(items), run_all_isolated)

(* a variant that does not look at --no-isolation *)
Mut_Plan(items, opt) ==
    PlanItems([groups |-> <<>>, timeouts |-> <<>>], items, opt.isolated)

(* the groups and timeouts stored on the config; with --no-isolation only the
   (empty) groups are stored, lines 35-38 *)
Plan(items, opt) ==
    IF opt.no_isolation THEN [groups |-> <<>>, timeouts |-> <<>>]
    ELSE PlanItems([groups |-> <<>>, timeouts |-> <<>>], items, opt.isolated)

----------------------------------------------------------------------------
(* The side-channel record (utils.py _TestRecord) and its JSONL line.
   A line is the sequence of the pieces json.dumps writes: the opening brace,
   the values of the fields, the closing brace. A line cut short by a kill
   during the write is a proper prefix of it; a blank line has no piece. *)

(* Python values of the list fields: a list or a tuple of items *)
List(items) == [type |-> "list", items |-> items]
Tuple(items) == [type |-> "tuple", items |-> items]

_TestRecord(nid, when, outcome, longrepr, duration, stdout, stderr, keywords, sections, user_properties, wasxfail) ==
    [nodeid |-> nid, when |-> when, outcome |-> outcome, longrepr |-> longrepr,
     duration |-> duration, stdout |-> stdout, stderr |-> stderr, keywords |-> keywords,
     sections |-> sections, user_properties |-> user_properties, wasxfail |-> wasxfail]

(* a record without captured output, sections and properties *)
Record(nid, when, outcome, longrepr, duration, wasxfail) ==
    _TestRecord(nid, when, outcome, longrepr, duration, "", "", List(<<>>), List(<<>>),
                List(<<>>), wasxfail)

BoolText(b) == IF b THEN "true" ELSE "false"

(* JSON has one array type: lists and tuples are both written as arrays, and
   arrays are read back as lists *)
Array(elems) == [array |-> elems]
EncodeStrings(v) == Array(v.items)
EncodePairs(v) == Array([i \in 1..Len(v.items) |-> Array(v.items[i].items)])
DecodeStrings(a) == List(a.array)
DecodePairs(a) == List([i \in 1..Len(a.array) |-> List(a.array[i].array)])

json_dumps(rec) ==
    <<"{", rec.nodeid, rec.when, rec.outcome, rec.longrepr, rec.duration,
      rec.stdout, rec.stderr, EncodeStrings(rec.keywords), EncodePairs(rec.sections),
      EncodePairs(rec.user_properties), BoolText(rec.wasxfail), "}">>

LineLen == Len(json_dumps(Record("", "", "", "", "", FALSE)))

(* line.strip(): a line of white space only is empty *)
Strip(line) == IF \A i \in 1..Len(line) : line[i] = " " THEN <<>> ELSE line

(* json.loads succeeds on a complete object only *)
IsJson(line) == Len(line) = LineLen /\ line[1] = "{" /\ line[LineLen] = "}"

json_loads(line) ==
    _TestRecord(line[2], line[3], line[4], line[5], line[6], line[7], line[8],
                DecodeStrings(line[9]), DecodePairs(line[10]), DecodePairs(line[11]),
                line[12] = "true")

(* reporting.py pytest_runtest_logreport (child): append one line per phase report *)
LongreprOf(outcome) ==
    IF outcome = "failed" THEN "AssertionError"
    ELSE IF outcome = "skipped" THEN "Skipped"
    ELSE ""

WorkerDuration == "0.01"     \* a measured duration, never the default 0.0
DefaultDuration == "0.0"

(* a variant that opens the file for writing: the record replaces the lines *)
Mut_pytest_runtest_logreport(f, nid, when, outcome, wasxfail) ==
    [f EXCEPT !.lines =
        <<json_dumps(Record(nid, when, outcome, LongreprOf(outcome), WorkerDuration, wasxfail))>>]

pytest_runtest_logreport(f, nid, when, outcome, wasxfail) ==
    [f EXCEPT !.lines =
        Append(@, json_dumps(Record(nid, when, outcome, LongreprOf(outcome),
                                    WorkerDuration, wasxfail)))]

(* a pytest.TestReport as the hook reads it: keywords are the keys of a dict,
   sections and user_properties lists of 2-tuples; an empty longrepr stands
   for None as well *)
TestReport(nid, when, outcome, longrepr, duration, capstdout, capstderr, keywords, sections, user_properties, wasxfail) ==
    [nodeid |-> nid, when |-> when, outcome |-> outcome, longrepr |-> longrepr,
     duration |-> duration, capstdout |-> capstdout, capstderr |-> capstderr,
     keywords |-> keywords, sections |-> sections, user_properties |-> user_properties,
     wasxfail |-> wasxfail]

(* reporting.py lines 24-36: the record the hook builds from a report *)
RecOf(rep) ==
    _TestRecord(rep.nodeid, rep.when, rep.outcome, rep.longrepr, rep.duration,
                rep.capstdout, rep.capstderr, List(rep.keywords), rep.sections,
                rep.user_properties, rep.wasxfail)

----------------------------------------------------------------------------
(* execution.py _parse_results: raises on a line json.loads rejects *)

RECURSIVE ParseLines(_, _)
ParseLines(lines, acc) ==
    IF lines = <<>> THEN [raised |-> FALSE, results |-> acc]
    ELSE
        LET file_line == Strip(lines[1]) IN
        IF file_line = <<>> THEN ParseLines(Tail(lines), acc)
        ELSE IF ~IsJson(file_line) THEN [raised |-> TRUE, results |-> acc]
        ELSE
            LET rec == json_loads(file_line)
                node == DictGet(acc, rec.nodeid, <<>>)
            IN  ParseLines(Tail(lines),
                           DictSet(acc, rec.nodeid, DictSet(node, rec.when, rec)))

_parse_results(f) ==
    IF f.exists THEN ParseLines(f.lines, <<>>) ELSE [raised |-> FALSE, results |-> <<>>]

----------------------------------------------------------------------------
(* utils.py: crash messages, as sequences of pieces *)

(* a variant without the signal convention *)
Mut_format_crash_reason(returncode) ==
    <<"crashed with", "exit code", ToString(returncode)>>

_format_crash_reason(returncode) ==
    IF returncode < 0
    THEN <<"crashed with", "signal", ToString(-returncode)>>
    ELSE <<"crashed with", "exit code", ToString(returncode)>>

_format_crash_message(returncode, context, stderr_text) ==
    <<"Subprocess">> \o _format_crash_reason(returncode) \o <<context>>
    \o (IF stderr_text # "" THEN <<"Subprocess stderr:", stderr_text>> ELSE <<>>)

(* proc_stderr.decode("utf-8", errors="replace").strip() *)
StderrText(proc_stderr) == IF proc_stderr = " " THEN "" ELSE proc_stderr

----------------------------------------------------------------------------
(* reporting.py _emit_report: the report handed to pytest_runtest_logreport *)

_emit_report(nid, when, outcome, longrepr, duration, wasxfail) ==
    [nodeid |-> nid, when |-> when, outcome |-> outcome,
     longrepr |-> IF outcome \in {"skipped", "failed"} THEN longrepr ELSE <<>>,
     skip_location |-> (outcome = "skipped" /\ longrepr # <<>>),
     duration |-> duration, wasxfail |-> wasxfail]

(* it.get_closest_marker("xfail") of the item with this nodeid *)
IsXfail(nid) == \E i \in 1..Len(collection) : nodeid(collection[i]) = nid /\ collection[i].xfail

(* an emission: the reports made, in order, and the increments of session.testsfailed *)
Emission(reps, fails) == [reports |-> reps, fails |-> fails]
NoEmission == Emission(<<>>, 0)
Then(a, b) == Emission(a.reports \o b.reports, a.fails + b.fails)

(* a variant that overlooks the xfail marker *)
Mut_EmitFailureForItem(nid, error_message) ==
    Emission(<<_emit_report(nid, "setup", "passed", <<>>, DefaultDuration, FALSE),
               _emit_report(nid, "call", "failed", error_message, DefaultDuration, FALSE),
               _emit_report(nid, "teardown", "passed", <<>>, DefaultDuration, FALSE)>>, 1)

(* reporting.py _emit_failure_for_items, one item *)
EmitFailureForItem(nid, error_message) ==
    IF IsXfail(nid)
    THEN Emission(<<_emit_report(nid, "setup", "passed", <<>>, DefaultDuration, FALSE),
                    _emit_report(nid, "call", "skipped", error_message, DefaultDuration, TRUE),
                    _emit_report(nid, "teardown", "passed", <<>>, DefaultDuration, FALSE)>>, 0)
    ELSE Emission(<<_emit_report(nid, "setup", "passed", <<>>, DefaultDuration, FALSE),
                    _emit_report(nid, "call", "failed", error_message, DefaultDuration, FALSE),
                    _emit_report(nid, "teardown", "passed", <<>>, DefaultDuration, FALSE)>>, 1)

RECURSIVE _emit_failure_for_items(_, _)
_emit_failure_for_items(items, error_message) ==
    IF items = <<>> THEN NoEmission
    ELSE Then(EmitFailureForItem(items[1], error_message),
              _emit_failure_for_items(Tail(items), error_message))

----------------------------------------------------------------------------
(* execution.py: the handlers of pytest_runtestloop *)

(* _handle_xfail_crash: its condition and its message *)
XfailCrashApplies(returncode, res, group_items) ==
    /\ returncode < 0
    /\ res # <<>>
    /\ \A i \in 1..Len(group_items) : IsXfail(group_items[i])

XfailCrashMsg(returncode) ==
    <<"Subprocess crashed with", "signal", ToString(-returncode), "(expected for xfail test)">>

(* _handle_timeout: its message *)
TimeoutMsg(group_name, group_timeout) ==
    <<"Subprocess group=", group_name, "timed out after", ToString(group_timeout),
      "seconds", "(execution time:", "elapsed", "s).",
      "Increase timeout with", "--isolated-timeout", ",", "isolated_timeout ini", ", or",
      "@pytest.mark.isolated(timeout=N)", ".">>

(* a variant that drops the captured stderr *)
Mut_CollectionCrashMsg(group_name, returncode, proc_stderr) ==
    <<"Subprocess group=", group_name, "exited with code", ToString(returncode),
      "and produced no per-test report.",
      "The subprocess may have crashed during collection.">>

(* _handle_collection_crash: its message *)
CollectionCrashMsg(group_name, returncode, proc_stderr) ==
    <<"Subprocess group=", group_name, "exited with code", ToString(returncode),
      "and produced no per-test report.",
      "The subprocess may have crashed during collection.">>
    \o (IF StderrText(proc_stderr) # ""
        THEN <<"Subprocess stderr:", StderrText(proc_stderr)>> ELSE <<>>)

(* _detect_crashed_tests *)
IsCrashed(res, nid) ==
    LET node_results == DictGet(res, nid, <<>>) IN
    /\ node_results # <<>>
    /\ "call" \notin Keys(node_results)
    /\ "setup" \in Keys(node_results)
    /\ DictGet(node_results, "setup", <<>>).outcome = "passed"

(* a variant that does not look for the tests after the crashed one *)
Mut_detect_crashed_tests(group_items, res) ==
    [crashed_items |-> Filter(group_items, {nid \in Range(group_items) : IsCrashed(res, nid)}),
     not_run_items |-> <<>>]

_detect_crashed_tests(group_items, res) ==
    LET crashed == {nid \in Range(group_items) : IsCrashed(res, nid)}
        not_run == IF crashed # {}
                   THEN {nid \in Range(group_items) : DictGet(res, nid, <<>>) = <<>>}
                   ELSE {}
    IN  [crashed_items |-> Filter(group_items, crashed),
         not_run_items |-> Filter(group_items, not_run)]

(* a variant that overlooks the xfail marker of a crashed item *)
Mut_EmitCrashedItem(nid, arg) ==
    LET rec == DictGet(DictGet(arg.results, nid, <<>>), "setup", <<>>) IN
    Emission(<<_emit_report(nid, "setup", rec.outcome,
                            IF rec.longrepr = "" THEN <<>> ELSE <<rec.longrepr>>,
                            rec.duration, FALSE),
               _emit_report(nid, "call", "failed", arg.crash_msg, DefaultDuration, FALSE),
               _emit_report(nid, "teardown", "passed", <<>>, DefaultDuration, FALSE)>>, 1)

(* _handle_mid_test_crash, one crashed item (lines 254-296) *)
EmitCrashedItem(nid, arg) ==
    LET node_results == DictGet(arg.results, nid, <<>>)
        rec == DictGet(node_results, "setup", <<>>)
        setup == IF "setup" \in Keys(node_results)
                 THEN _emit_report(nid, "setup", rec.outcome,
                                   IF rec.longrepr = "" THEN <<>> ELSE <<rec.longrepr>>,
                                   rec.duration, FALSE)
                 ELSE _emit_report(nid, "setup", "passed", <<>>, DefaultDuration, FALSE)
        teardown == _emit_report(nid, "teardown", "passed", <<>>, DefaultDuration, FALSE)
    IN  IF IsXfail(nid)
        THEN Emission(<<setup,
                        _emit_report(nid, "call", "skipped", arg.crash_msg, DefaultDuration, TRUE),
                        teardown>>, 0)
        ELSE Emission(<<setup,
                        _emit_report(nid, "call", "failed", arg.crash_msg, DefaultDuration, FALSE),
                        teardown>>, 1)

(* _handle_mid_test_crash, the loop over the crashed items (line 254) *)
RECURSIVE EmitCrashedItems(_, _)
EmitCrashedItems(items, arg) ==
    IF items = <<>> THEN NoEmission
    ELSE Then(EmitCrashedItem(items[1], arg), EmitCrashedItems(Tail(items), arg))

(* a variant that leaves the handled tests in the result set *)
Mut_PopAll(res, nids) == res

RECURSIVE PopAll(_, _)
PopAll(res, nids) ==
    IF nids = <<>> THEN res ELSE PopAll(DictPop(res, nids[1]), Tail(nids))

(* _handle_mid_test_crash: what it emits, and the results it leaves *)
_handle_mid_test_crash(returncode, proc_stderr, group_items, res) ==
    LET d == _detect_crashed_tests(group_items, res)
        stderr_text == StderrText(proc_stderr)
        crash_msg == _format_crash_message(returncode, "during test execution.", stderr_text)
        not_run_msg == <<"Test did not run -">>
                       \o _format_crash_message(returncode, "during earlier test execution.",
                                                stderr_text)
    IN  IF d.crashed_items = <<>> /\ d.not_run_items = <<>>
        THEN [handled |-> FALSE, emission |-> NoEmission, results |-> res]
        ELSE [handled |-> TRUE,
              emission |-> Then(EmitCrashedItems(d.crashed_items,
                                                 [results |-> res, crash_msg |-> crash_msg]),
                                _emit_failure_for_items(d.not_run_items, not_run_msg)),
              results |-> PopAll(PopAll(res, d.crashed_items), d.not_run_items)]

(* _emit_all_results, one phase of one item (lines 334-366) *)
MissingCallMsg(nid) == <<"Missing 'call' phase result from subprocess for", nid>>

(* a variant that reports a missing call whatever the setup was *)
Mut_EmitPhase(nid, node_results, when) ==
    LET rec == DictGet(node_results, when, <<>>) IN
    IF when \notin Keys(node_results)
    THEN IF when = "call"
         THEN Emission(<<_emit_report(nid, "call", "failed", MissingCallMsg(nid),
                                      DefaultDuration, FALSE)>>, 1)
         ELSE NoEmission
    ELSE Emission(<<_emit_report(nid, when, rec.outcome,
                                 IF rec.longrepr = "" THEN <<>> ELSE <<rec.longrepr>>,
                                 rec.duration, rec.wasxfail)>>,
                  IF when = "call" /\ rec.outcome = "failed" THEN 1 ELSE 0)

EmitPhase(nid, node_results, when) ==
    LET setup_passed == /\ "setup" \in Keys(node_results)
                        /\ DictGet(node_results, "setup", <<>>).outcome = "passed"
        rec == DictGet(node_results, when, <<>>)
    IN  IF when \notin Keys(node_results)
        THEN IF when = "call" /\ setup_passed
             THEN Emission(<<_emit_report(nid, "call", "failed", MissingCallMsg(nid),
                                          DefaultDuration, FALSE)>>, 1)
             ELSE NoEmission
        ELSE Emission(<<_emit_report(nid, when, rec.outcome,
                                     IF rec.longrepr = "" THEN <<>> ELSE <<rec.longrepr>>,
                                     rec.duration, rec.wasxfail)>>,
                      IF when = "call" /\ rec.outcome = "failed" THEN 1 ELSE 0)

(* _emit_all_results, the loop over the phases (line 334) *)
RECURSIVE EmitPhases(_, _, _)
EmitPhases(nid, node_results, phases) ==
    IF phases = <<>> THEN NoEmission
    ELSE Then(EmitPhase(nid, node_results, phases[1]),
              EmitPhases(nid, node_results, Tail(phases)))

(* _emit_all_results, one item (lines 321-366) *)
EmitItem(nid, res) ==
    IF nid \notin Keys(res) THEN NoEmission
    ELSE EmitPhases(nid, DictGet(res, nid, <<>>), Phases)

RECURSIVE _emit_all_results(_, _)
_emit_all_results(group_items, res) ==
    IF group_items = <<>> THEN NoEmission
    ELSE Then(EmitItem(group_items[1], res), _emit_all_results(Tail(group_items), res))

----------------------------------------------------------------------------
(* The runs that are checked *)

(* three tests of one module that name the same group *)
OneGroup(xf) ==
    [i \in 1..3 |-> Item(<<"m.py", "t" \o ToString(i)>>,
                         Mark(<<>>, KwGroup("g")), NoMarker, NoMarker, i \in xf)]

(* two tests in groups of their own, the second with a timeout, and a native test *)
TwoGroups(xf) ==
    <<Item(<<"a.py", "t1">>, Mark(<<"a">>, NoKwargs), NoMarker, NoMarker, 1 \in xf),
      Item(<<"a.py", "t2">>, Mark(<<>>, KwGroupTimeout("b", 1)), NoMarker, NoMarker, 2 \in xf),
      Item(<<"a.py", "t3">>, NoMarker, NoMarker, NoMarker, FALSE)>>

(* an isolated test between two native tests *)
Mixed ==
    <<Item(<<"n.py", "t1">>, NoMarker, NoMarker, NoMarker, FALSE),
      Item(<<"n.py", "t2">>, Mark(<<>>, NoKwargs), NoMarker, NoMarker, FALSE),
      Item(<<"n.py", "t3">>, NoMarker, NoMarker, NoMarker, FALSE)>>

(* no test carries an xfail marker, or the second one, or every one *)
XfailChoices(n) == {{}, {2}, 1..n}

Collections ==
    {OneGroup(xf) : xf \in XfailChoices(3)} \cup {TwoGroups(xf) : xf \in XfailChoices(2)}
    \cup {Mixed}

Options ==
    {[maxfail |-> mf, isolated |-> FALSE, no_isolation |-> FALSE,
      timeout_opt |-> None, timeout_ini |-> "300", args |-> DefaultArgs] : mf \in 0..MaxFail}

(* what a test phase may report in the worker *)
SetupOutcomes == {"passed", "failed", "skipped"}
CallOutcomes == {"passed", "failed"}
XfailCallOutcomes == {"skipped", "passed"}
(* a teardown may fail where the test body has passed *)
TeardownOutcomes(lines) ==
    IF lines # <<>> /\ json_loads(lines[Len(lines)]).when = "call"
                   /\ json_loads(lines[Len(lines)]).outcome = "passed"
    THEN {"passed", "failed"}
    ELSE {"passed"}

(* how a worker may end before its last test is done: killed by a signal (with
   the interpreter's fault message on stderr), or exiting early with a code *)
Deaths ==
    {[returncode |-> -11, stderr |-> "Fatal Python error: Segmentation fault"],
     [returncode |-> 1, stderr |-> " "],
     [returncode |-> 0, stderr |-> ""]}

(* exit statuses of a worker: killed by a signal, or exited with a code *)
ExitCodes == {-11, -9, -6, -1, 0, 1, 2, 3}

IntOf(text) == IF text = "300" THEN 300 ELSE IF text = "20" THEN 20 ELSE 0

----------------------------------------------------------------------------
(* State *)

NoFile == [exists |-> FALSE, lines |-> <<>>]
NoWorker == [alive |-> FALSE, idx |-> 1, phase |-> "setup", failed |-> FALSE, counter |-> 0]
NoResult == [returncode |-> 0, stderr |-> "", timed_out |-> FALSE]
NoReport == TestReport("", "setup", "passed", "", DefaultDuration, "", "", <<>>, List(<<>>),
                       List(<<>>), FALSE)

NodeIds(items) == [i \in 1..Len(items) |-> nodeid(items[i])]

Init ==
    /\ environ \in {"", "1"}
    /\ collection \in Collections
    /\ option \in Options
    /\ session_items = NodeIds(collection)
    /\ cfg_groups = <<>>
    /\ cfg_timeouts = <<>>
    /\ testsfailed = 0
    /\ groups = <<>>
    /\ normal_items = <<>>
    /\ default_timeout = DEFAULT_TIMEOUT
    /\ pc = "collect"
    /\ gi = 1
    /\ file = NoFile
    /\ worker = NoWorker
    /\ result = NoResult
    /\ results = <<>>
    /\ reports = <<>>
    /\ launched = <<>>
    /\ native_run = <<>>
    /\ observed = [nid \in Range(NodeIds(collection)) |-> 0]
    /\ ret = None
    /\ parsed = <<>>
    /\ procs = {}
    /\ report = NoReport

----------------------------------------------------------------------------
(* Parent: planning *)

(* a variant that never sees the guard *)
Mut_IsChild(env) == FALSE

(* os.environ.get(SUBPROC_ENV) == "1": this process is a worker *)
IsChild(env) == env = "1"

(* grouping.py: a worker does no grouping (lines 32-33) *)
pytest_collection_modifyitems ==
    /\ pc = "collect"
    /\ IF IsChild(environ)
       THEN UNCHANGED <<cfg_groups, cfg_timeouts>>
       ELSE /\ cfg_groups' = Plan(collection, option).groups
            /\ cfg_timeouts' = Plan(collection, option).timeouts
    /\ pc' = "runtestloop"
    /\ UNCHANGED <<procs, report, environ, collection, option, session_items, testsfailed, groups, normal_items,
                   default_timeout, gi, file, worker, result, results, reports,
                   launched, native_run, observed, ret, parsed>>

(* pytest_runtestloop, lines 390-408: nodeid_to_group and filtered_groups *)
GroupNameOf(cgroups, nid) ==
    LET idx == {i \in 1..Len(cgroups) : nid \in Range(cgroups[i].val)}
    IN  cgroups[CHOOSE i \in idx : \A j \in idx : j <= i].key

(* a variant that keeps the planner's groups as they are, whatever session.items is *)
Mut_FilterGroups(cgroups, items, acc) == cgroups

RECURSIVE FilterGroups(_, _, _)
FilterGroups(cgroups, items, acc) ==
    IF items = <<>> THEN acc
    ELSE IF \E i \in 1..Len(cgroups) : items[1] \in Range(cgroups[i].val)
         THEN FilterGroups(cgroups, Tail(items),
                           DictAppend(acc, GroupNameOf(cgroups, items[1]), items[1]))
         ELSE FilterGroups(cgroups, Tail(items), acc)

(* a variant that forgets which items went to a group *)
Mut_IsolatedNodeids(fgroups) == {}

IsolatedNodeids(fgroups) == UNION {Range(fgroups[i].val) : i \in 1..Len(fgroups)}

(* lines 413-418 *)
DefaultTimeout(opt) ==
    Or(opt.timeout_opt,
       IF opt.timeout_ini # "" THEN IntOf(opt.timeout_ini) ELSE DEFAULT_TIMEOUT)

(* pytest_runtestloop up to the loop over the groups, lines 375-421 *)
StartLoop ==
    /\ pc = "runtestloop"
    /\ ~IsChild(environ)
    /\ groups' = FilterGroups(cfg_groups, session_items, <<>>)
    /\ normal_items' = Filter(session_items,
                              Range(session_items) \ IsolatedNodeids(groups'))
    /\ default_timeout' = DefaultTimeout(option)
    /\ gi' = 1
    /\ pc' = "loop"
    /\ UNCHANGED <<procs, report, environ, collection, option, cfg_groups, cfg_timeouts, session_items, testsfailed,
                   file, worker, result, results, reports, launched, native_run,
                   observed, ret, parsed>>

(* pytest_runtestloop in a worker: "return None", the worker runs pytest's
   normal loop (lines 375-376) *)
ChildLoop ==
    /\ pc = "runtestloop"
    /\ IsChild(environ)
    /\ pc' = "child"
    /\ ret' = None
    /\ UNCHANGED <<procs, report, environ, collection, option, cfg_groups, cfg_timeouts, session_items,
                   testsfailed, groups, normal_items, default_timeout, gi, file, worker,
                   result, results, reports, launched, native_run, observed, parsed>>

----------------------------------------------------------------------------
(* Parent: one group *)

group_name == groups[gi].key
group_items == groups[gi].val
(* a variant that applies the global timeout to every group *)
Mut_GroupTimeout(timeouts, name, dflt) == dflt

(* line 428 *)
GroupTimeout(timeouts, name, dflt) == Or(DictGet(timeouts, name, None), dflt)
group_timeout == GroupTimeout(cfg_timeouts, group_name, default_timeout)

(* a variant in which the worker inherits the globals of the previous one *)
Mut_FreshProcess(previous) ==
    [alive |-> TRUE, idx |-> 1, phase |-> "setup", failed |-> FALSE,
     counter |-> previous.counter]

(* the value of SUBPROC_ENV in the environment handed to the worker: a copy of
   the parent's with the guard set (lines 436-437) *)
ChildEnv(env) == "1"

(* the state of the process image subprocess.run starts *)
FreshProcess(previous) ==
    [alive |-> TRUE, idx |-> 1, phase |-> "setup", failed |-> FALSE, counter |-> 0]

(* a variant that starts the next worker without waiting for the one running *)
Mut_Launch ==
    /\ pc \in {"loop", "wait"}
    /\ gi <= Len(groups)
    /\ file' = [exists |-> TRUE, lines |-> <<>>]
    /\ worker' = FreshProcess(worker)
    /\ launched' = Append(launched, [group |-> group_name, nodeids |-> group_items,
                                     timeout |-> group_timeout, guard |-> ChildEnv(environ),
                                     cmd |-> Cmd(option, group_items)])
    /\ results' = <<>>
    /\ pc' = "wait"
    /\ UNCHANGED <<procs, report, environ, collection, option, cfg_groups, cfg_timeouts, session_items,
                   testsfailed, groups, normal_items, default_timeout, gi, result, reports,
                   native_run, observed, ret, parsed>>

(* lines 424-474: the temporary file is created, the worker is started *)
Launch ==
    /\ pc = "loop"
    /\ gi <= Len(groups)
    /\ file' = [exists |-> TRUE, lines |-> <<>>]
    /\ worker' = FreshProcess(worker)
    /\ launched' = Append(launched, [group |-> group_name, nodeids |-> group_items,
                                     timeout |-> group_timeout, guard |-> ChildEnv(environ),
                                     cmd |-> Cmd(option, group_items)])
    /\ results' = <<>>
    /\ pc' = "wait"
    /\ UNCHANGED <<procs, report, environ, collection, option, cfg_groups, cfg_timeouts, session_items, testsfailed,
                   groups, normal_items, default_timeout, gi, result, reports,
                   native_run, observed, ret, parsed>>

----------------------------------------------------------------------------
(* The worker: pytest runs the group's tests in order; every phase report is
   appended to the side-channel file by pytest_runtest_logreport *)

OutcomesFor(nid, when) ==
    IF when = "setup" THEN SetupOutcomes
    ELSE IF when = "call" THEN (IF IsXfail(nid) THEN XfailCallOutcomes ELSE CallOutcomes)
    ELSE TeardownOutcomes(file.lines)

NextPhase(when, outcome) ==
    IF when = "setup" THEN (IF outcome = "passed" THEN "call" ELSE "teardown")
    ELSE IF when = "call" THEN "teardown"
    ELSE "setup"

WorkerPhase ==
    /\ pc = "wait"
    /\ worker.alive
    /\ worker.idx <= Len(group_items)
    /\ LET nid == group_items[worker.idx]
           when == worker.phase
       IN  \E outcome \in OutcomesFor(nid, when) :
            /\ file' = pytest_runtest_logreport(file, nid, when, outcome,
                                                when = "call" /\ IsXfail(nid))
            /\ worker' = [worker EXCEPT
                            !.phase = NextPhase(when, outcome),
                            !.idx = IF when = "teardown" THEN @ + 1 ELSE @,
                            !.failed = @ \/ outcome = "failed",
                            !.counter = IF when = "call" THEN @ + 1 ELSE @]
            /\ observed' = IF when = "call"
                           THEN [observed EXCEPT ![nid] = worker.counter + 1]
                           ELSE observed
    /\ UNCHANGED <<procs, report, environ, collection, option, cfg_groups, cfg_timeouts, session_items, testsfailed,
                   groups, normal_items, default_timeout, pc, gi, result, results,
                   reports, launched, native_run, ret, parsed>>

(* the worker's pytest session ends: exit code 1 if a test failed, else 0 *)
WorkerExit ==
    /\ pc = "wait"
    /\ worker.alive
    /\ worker.idx > Len(group_items)
    /\ worker' = [worker EXCEPT !.alive = FALSE]
    /\ result' = [returncode |-> IF worker.failed THEN 1 ELSE 0, stderr |-> "",
                  timed_out |-> FALSE]
    /\ UNCHANGED <<procs, report, environ, collection, option, cfg_groups, cfg_timeouts, session_items, testsfailed,
                   groups, normal_items, default_timeout, pc, gi, file, results,
                   reports, launched, native_run, observed, ret, parsed>>

(* the worker dies or leaves early, between two phase reports; _run_subprocess
   returns its exit status (lines 92-105) *)
WorkerDie ==
    /\ pc = "wait"
    /\ worker.alive
    /\ \E d \in Deaths :
        result' = [returncode |-> d.returncode, stderr |-> d.stderr, timed_out |-> FALSE]
    /\ worker' = [worker EXCEPT !.alive = FALSE]
    /\ UNCHANGED <<procs, report, environ, collection, option, cfg_groups, cfg_timeouts, session_items, testsfailed,
                   groups, normal_items, default_timeout, pc, gi, file, results,
                   reports, launched, native_run, observed, ret, parsed>>

(* the line a kill during the write of the next record leaves in the file *)
CutLine(nid, when) ==
    SubSeq(json_dumps(Record(nid, when, "passed", "", WorkerDuration, FALSE)), 1, 3)

(* subprocess.TimeoutExpired: the worker is killed wherever it is, also in the
   middle of a write; _run_subprocess returns -1 and timed_out (lines 106-113) *)
WorkerTimeout ==
    /\ pc = "wait"
    /\ worker.alive
    /\ \E cut \in BOOLEAN :
        /\ cut => worker.idx <= Len(group_items)
        /\ file' = IF cut
                   THEN [file EXCEPT !.lines =
                            Append(@, CutLine(group_items[worker.idx], worker.phase))]
                   ELSE file
    /\ worker' = [worker EXCEPT !.alive = FALSE]
    /\ result' = [returncode |-> -1, stderr |-> "", timed_out |-> TRUE]
    /\ UNCHANGED <<procs, report, environ, collection, option, cfg_groups, cfg_timeouts, session_items, testsfailed,
                   groups, normal_items, default_timeout, pc, gi, results,
                   reports, launched, native_run, observed, ret, parsed>>

----------------------------------------------------------------------------
(* Parent: after the worker *)

(* a variant that leaves the file where it is *)
Mut_ParseResults ==
    /\ pc = "wait"
    /\ ~worker.alive
    /\ LET p == _parse_results(file) IN
        IF p.raised
        THEN /\ pc' = "raised"
             /\ UNCHANGED <<results, parsed>>
        ELSE /\ pc' = "handle"
             /\ results' = p.results
             /\ parsed' = p.results
    /\ UNCHANGED <<procs, report, environ, collection, option, cfg_groups, cfg_timeouts,
                   session_items, testsfailed, groups, normal_items, default_timeout, gi,
                   file, worker, result, reports, launched, native_run, observed, ret>>

(* line 494; an exception of json.loads leaves pytest_runtestloop *)
ParseResults ==
    /\ pc = "wait"
    /\ ~worker.alive
    /\ LET p == _parse_results(file) IN
        IF p.raised
        THEN /\ pc' = "raised"
             /\ UNCHANGED <<file, results, parsed>>
        ELSE /\ pc' = "handle"
             /\ results' = p.results
             /\ parsed' = p.results
             /\ file' = NoFile
    /\ UNCHANGED <<procs, report, environ, collection, option, cfg_groups, cfg_timeouts, session_items, testsfailed,
                   groups, normal_items, default_timeout, gi, worker, result,
                   reports, launched, native_run, observed, ret>>

(* a variant that emits the reports and leaves the counter alone *)
Mut_Emit(e) ==
    /\ reports' = reports \o e.reports
    /\ testsfailed' = testsfailed

Emit(e) ==
    /\ reports' = reports \o e.reports
    /\ testsfailed' = testsfailed + e.fails

(* "continue": on to the next group *)
Continue ==
    /\ gi' = gi + 1
    /\ pc' = "loop"
    /\ ret' = ret

(* lines 497-498 *)
HandleXfailCrash ==
    /\ pc = "handle"
    /\ XfailCrashApplies(result.returncode, results, group_items)
    /\ Emit(_emit_failure_for_items(group_items, XfailCrashMsg(result.returncode)))
    /\ Continue
    /\ UNCHANGED <<procs, report, environ, collection, option, cfg_groups, cfg_timeouts, session_items,
                   groups, normal_items, default_timeout, file, worker, result, results,
                   launched, native_run, observed, parsed>>

(* lines 500-508 *)
HandleTimeout ==
    /\ pc = "handle"
    /\ ~XfailCrashApplies(result.returncode, results, group_items)
    /\ result.timed_out
    /\ Emit(_emit_failure_for_items(group_items, TimeoutMsg(group_name, group_timeout)))
    /\ Continue
    /\ UNCHANGED <<procs, report, environ, collection, option, cfg_groups, cfg_timeouts, session_items,
                   groups, normal_items, default_timeout, file, worker, result, results,
                   launched, native_run, observed, parsed>>

(* lines 510-513 *)
HandleCollectionCrash ==
    /\ pc = "handle"
    /\ ~XfailCrashApplies(result.returncode, results, group_items)
    /\ ~result.timed_out
    /\ results = <<>>
    /\ Emit(_emit_failure_for_items(
                group_items,
                CollectionCrashMsg(group_name, result.returncode, result.stderr)))
    /\ Continue
    /\ UNCHANGED <<procs, report, environ, collection, option, cfg_groups, cfg_timeouts, session_items,
                   groups, normal_items, default_timeout, file, worker, result, results,
                   launched, native_run, observed, parsed>>

(* lines 523-529 *)
MaxfailReached(failed, maxfail) == failed # 0 /\ maxfail # 0 /\ failed >= maxfail

(* lines 515-529: mid-test crash, replay, early exit *)
HandleResults ==
    /\ pc = "handle"
    /\ ~XfailCrashApplies(result.returncode, results, group_items)
    /\ ~result.timed_out
    /\ results # <<>>
    /\ LET mid == _handle_mid_test_crash(result.returncode, result.stderr,
                                         group_items, results)
       IN  /\ Emit(Then(mid.emission, _emit_all_results(group_items, mid.results)))
           /\ results' = mid.results
    /\ IF MaxfailReached(testsfailed', option.maxfail)
       THEN /\ pc' = "stopped"
            /\ ret' = 1
            /\ gi' = gi
       ELSE Continue
    /\ UNCHANGED <<procs, report, environ, collection, option, cfg_groups, cfg_timeouts, session_items,
                   groups, normal_items, default_timeout, file, worker, result,
                   launched, native_run, observed, parsed>>

----------------------------------------------------------------------------
(* Parent: the tests that are not isolated, and the end *)

(* a variant that runs the native tests without waiting for the groups *)
Mut_RunNative ==
    /\ pc = "loop"
    /\ Len(native_run) < Len(normal_items)
    /\ native_run' = Append(native_run, normal_items[Len(native_run) + 1])
    /\ testsfailed' = testsfailed
    /\ UNCHANGED <<procs, report, environ, collection, option, cfg_groups, cfg_timeouts, session_items,
                   groups, normal_items, default_timeout, pc, gi, file, worker, result,
                   results, reports, launched, observed, ret, parsed>>

(* lines 532-534: pytest_runtest_protocol runs the item in the parent; the
   session counts its failure *)
RunNative ==
    /\ pc = "loop"
    /\ gi > Len(groups)
    /\ Len(native_run) < Len(normal_items)
    /\ native_run' = Append(native_run, normal_items[Len(native_run) + 1])
    /\ \E failed \in BOOLEAN : testsfailed' = testsfailed + (IF failed THEN 1 ELSE 0)
    /\ UNCHANGED <<procs, report, environ, collection, option, cfg_groups, cfg_timeouts, session_items,
                   groups, normal_items, default_timeout, pc, gi, file, worker, result,
                   results, reports, launched, observed, ret, parsed>>

(* line 536 *)
Return ==
    /\ pc = "loop"
    /\ gi > Len(groups)
    /\ Len(native_run) = Len(normal_items)
    /\ ret' = IF testsfailed # 0 THEN 1 ELSE 0
    /\ pc' = "returned"
    /\ UNCHANGED <<procs, report, environ, collection, option, cfg_groups, cfg_timeouts, session_items, testsfailed,
                   groups, normal_items, default_timeout, gi, file, worker, result,
                   results, reports, launched, native_run, observed, parsed>>

Next ==
    \/ pytest_collection_modifyitems
    \/ StartLoop
    \/ ChildLoop
    \/ Launch
    \/ WorkerPhase
    \/ WorkerExit
    \/ WorkerDie
    \/ WorkerTimeout
    \/ ParseResults
    \/ HandleXfailCrash
    \/ HandleTimeout
    \/ HandleCollectionCrash
    \/ HandleResults
    \/ RunNative
    \/ Return

Spec == Init /\ [][Next]_vars

----------------------------------------------------------------------------
(* _parse_results on its own: the file of a worker that has ended holds any
   lines, up to MaxLines of them, or does not exist *)

FileLines ==
    {json_dumps(Record("m.py::t1", "setup", "passed", "", WorkerDuration, FALSE)),
     json_dumps(Record("m.py::t1", "call", "failed", "AssertionError", WorkerDuration, FALSE)),
     <<>>,
     <<" ">>,
     CutLine("m.py::t2", "setup")}

FilesOf(n) == UNION {[1..k -> FileLines] : k \in 0..n}

InitParse ==
    /\ environ = ""
    /\ collection = OneGroup({})
    /\ option \in {o \in Options : o.maxfail = 0}
    /\ session_items = NodeIds(collection)
    /\ cfg_groups = Plan(collection, option).groups
    /\ cfg_timeouts = Plan(collection, option).timeouts
    /\ testsfailed = 0
    /\ groups = FilterGroups(cfg_groups, session_items, <<>>)
    /\ normal_items = <<>>
    /\ default_timeout = DefaultTimeout(option)
    /\ pc = "wait"
    /\ gi = 1
    /\ \E exists \in BOOLEAN :
        \E lines \in FilesOf(MaxLines) :
            /\ ~exists => lines = <<>>
            /\ file = [exists |-> exists, lines |-> lines]
    /\ worker = NoWorker
    /\ result \in {[returncode |-> -1, stderr |-> "", timed_out |-> TRUE],
                   [returncode |-> -11, stderr |-> "Fatal Python error: Segmentation fault",
                    timed_out |-> FALSE]}
    /\ results = <<>>
    /\ reports = <<>>
    /\ launched = <<[group |-> groups[1].key, nodeids |-> groups[1].val,
                     timeout |-> default_timeout, guard |-> ChildEnv(environ),
                     cmd |-> Cmd(option, groups[1].val)]>>
    /\ native_run = <<>>
    /\ observed = [nid \in Range(NodeIds(collection)) |-> 0]
    /\ ret = None
    /\ parsed = <<>>
    /\ procs = {}
    /\ report = NoReport

NextParse == ParseResults

SpecParse == InitParse /\ [][NextParse]_vars

----------------------------------------------------------------------------
(* Planning and launching on their own: four tests in two modules, one of them
   in a class, with the isolated marker on functions, on the class and on the
   modules in every combination below; every worker runs into its timeout *)

Reverse(s) == [i \in 1..Len(s) |-> s[Len(s) + 1 - i]]

(* session.items after -k / -m and after --ff / --nf: as collected, reordered,
   or filtered and reordered *)
SessionOrders(ids) == {ids, Reverse(ids), <<ids[3], ids[1]>>, <<ids[4], ids[1]>>}

Bare == Mark(<<>>, NoKwargs)

PlanCollections ==
    {<<Item(<<"a.py", "t1">>, o1, NoMarker, ma, FALSE),
       Item(<<"a.py", "t2">>, o2, NoMarker, ma, FALSE),
       Item(<<"a.py", "C", "t3">>, o3, c, ma, FALSE),
       Item(<<"b.py", "t4">>, o4, NoMarker, mb, FALSE)>> :
        o1 \in {NoMarker, Bare, Mark(<<"g">>, NoKwargs)},
        o2 \in {NoMarker, Mark(<<>>, KwGroupTimeout("g", 2)), Mark(<<>>, KwTimeout(2))},
        o3 \in {NoMarker, Bare},
        o4 \in {NoMarker, Mark(<<>>, KwGroup("g")), Mark(<<>>, KwGroup("a.py::t1"))},
        c \in {NoMarker, Bare},
        ma \in {NoMarker, Mark(<<>>, KwTimeout(3))},
        mb \in {NoMarker, Bare}}

PlanOptions ==
    {[maxfail |-> 0, isolated |-> flags[1], no_isolation |-> flags[2],
      timeout_opt |-> t[1], timeout_ini |-> t[2], args |-> DefaultArgs] :
        flags \in {<<FALSE, FALSE>>, <<TRUE, FALSE>>, <<FALSE, TRUE>>, <<TRUE, TRUE>>},
        t \in {<<None, "20">>, <<5, "20">>, <<None, "">>}}

InitPlan ==
    /\ environ = ""
    /\ collection \in PlanCollections
    /\ option \in PlanOptions
    /\ session_items \in SessionOrders(NodeIds(collection))
    /\ cfg_groups = <<>>
    /\ cfg_timeouts = <<>>
    /\ testsfailed = 0
    /\ groups = <<>>
    /\ normal_items = <<>>
    /\ default_timeout = DEFAULT_TIMEOUT
    /\ pc = "collect"
    /\ gi = 1
    /\ file = NoFile
    /\ worker = NoWorker
    /\ result = NoResult
    /\ results = <<>>
    /\ reports = <<>>
    /\ launched = <<>>
    /\ native_run = <<>>
    /\ observed = [nid \in Range(NodeIds(collection)) |-> 0]
    /\ ret = None
    /\ parsed = <<>>
    /\ procs = {}
    /\ report = NoReport

NextPlan ==
    \/ pytest_collection_modifyitems
    \/ StartLoop
    \/ Launch
    \/ WorkerTimeout
    \/ ParseResults
    \/ HandleTimeout
    \/ RunNative
    \/ Return

SpecPlan == InitPlan /\ [][NextPlan]_vars

----------------------------------------------------------------------------
(* Vocabulary of the properties *)

(* the group whose worker was started last, and its tests *)
LastGroup == launched[Len(launched)]
LastItems == IF launched = <<>> THEN <<>> ELSE LastGroup.nodeids

(* the last group has been reconciled: its handler has run *)
Reconciled == launched # <<>> /\ pc \in {"loop", "stopped", "returned"}

ReportsOf(nid) == SelectSeq(reports, LAMBDA r : r.nodeid = nid)
PhaseReports(nid, when) == SelectSeq(reports, LAMBDA r : r.nodeid = nid /\ r.when = when)

(* the one call report of a test: its outcome, its expected-failure indicator,
   and a piece its message contains *)
CallReported(nid, outcome, wasxfail, piece) ==
    /\ Len(PhaseReports(nid, "call")) = 1
    /\ PhaseReports(nid, "call")[1].outcome = outcome
    /\ PhaseReports(nid, "call")[1].wasxfail = wasxfail
    /\ Contains(PhaseReports(nid, "call")[1].longrepr, piece)

NamesCrash(nid) ==
    \/ Contains(PhaseReports(nid, "call")[1].longrepr, <<"signal">>)
    \/ Contains(PhaseReports(nid, "call")[1].longrepr, <<"exit code">>)

(* the phases recorded for a test, in the order setup, call, teardown *)
RecordedPhases(nid) ==
    SelectSeq(Phases, LAMBDA when : when \in Keys(DictGet(parsed, nid, <<>>)))

(* a test is reported with its recorded outcomes: one report per recorded
   phase, in order, with the recorded outcome and duration *)
ReportedAsRecorded(nid) ==
    /\ Len(ReportsOf(nid)) = Len(RecordedPhases(nid))
    /\ \A i \in 1..Len(ReportsOf(nid)) :
        LET rec == DictGet(DictGet(parsed, nid, <<>>), RecordedPhases(nid)[i], <<>>)
            rep == ReportsOf(nid)[i]
        IN  /\ rep.when = RecordedPhases(nid)[i]
            /\ rep.outcome = rec.outcome
            /\ rep.duration = rec.duration
            /\ rep.wasxfail = rec.wasxfail

AllXfail(items) == \A i \in 1..Len(items) : IsXfail(items[i])

(* the worker of the last group ended, not by timeout, in the call phase of its
   k-th test: the setup record of that test says passed and it has no call record *)
CrashedInCall(k) ==
    /\ Reconciled
    /\ ~result.timed_out
    /\ k \in 1..Len(LastItems)
    /\ IsCrashed(parsed, LastItems[k])

(* C1 (as stated): after a crash in the call phase of the k-th test, the tests
   before k are reported as recorded, test k has a failed call naming the signal
   or the exit code, every later test has a failed call saying it did not run *)
C1_CrashContainment ==
    \A k \in 1..Len(LastItems) :
        CrashedInCall(k) =>
            /\ \A i \in 1..(k - 1) : ReportedAsRecorded(LastItems[i])
            /\ CallReported(LastItems[k], "failed", FALSE, <<>>)
            /\ NamesCrash(LastItems[k])
            /\ \A i \in (k + 1)..Len(LastItems) :
                CallReported(LastItems[i], "failed", FALSE, <<"Test did not run -">>)

(* C1 (amended): the same, with the call of an xfail-marked test reported as
   skipped with the expected-failure indicator instead of failed; and when the
   exit code is negative and every test of the group is xfail-marked, every test
   of the group is reported as an expected failure naming the signal *)
C1_CrashContainmentXfail ==
    \A k \in 1..Len(LastItems) :
        CrashedInCall(k) =>
            IF result.returncode < 0 /\ AllXfail(LastItems)
            THEN \A i \in 1..Len(LastItems) :
                    CallReported(LastItems[i], "skipped", TRUE, <<"signal">>)
            ELSE
                /\ \A i \in 1..(k - 1) : ReportedAsRecorded(LastItems[i])
                /\ CallReported(LastItems[k],
                                IF IsXfail(LastItems[k]) THEN "skipped" ELSE "failed",
                                IsXfail(LastItems[k]), <<>>)
                /\ NamesCrash(LastItems[k])
                /\ \A i \in (k + 1)..Len(LastItems) :
                    CallReported(LastItems[i],
                                 IF IsXfail(LastItems[i]) THEN "skipped" ELSE "failed",
                                 IsXfail(LastItems[i]), <<"Test did not run -">>)

(* C1 witness: a group of three, crashed in its second test after the first one
   passed, reconciled: first as recorded, second failed, third did not run *)
C1_Witness ==
    /\ CrashedInCall(2)
    /\ Len(LastItems) = 3
    /\ ~AllXfail(LastItems)
    /\ "call" \in Keys(DictGet(parsed, LastItems[1], <<>>))
    /\ DictGet(DictGet(parsed, LastItems[1], <<>>), "call", <<>>).outcome = "passed"
    /\ ReportedAsRecorded(LastItems[1])
    /\ CallReported(LastItems[2], "failed", FALSE, <<"signal">>)
    /\ CallReported(LastItems[3], "failed", FALSE, <<"Test did not run -">>)

(* every planned group has had its worker started, every native test has run *)
AllGroupsLaunched == [i \in 1..Len(launched) |-> launched[i].group] = KeySeq(groups)
AllNativeRun == native_run = normal_items

(* C2: whatever the workers do, pytest_runtestloop is never left by an
   exception, and unless the max-failure exit fires it returns only after every
   planned group has been launched and every native test has run *)
C2_LoopSurvivesWorkers ==
    /\ pc # "raised"
    /\ pc = "returned" => (AllGroupsLaunched /\ AllNativeRun)

(* the worker of the last group timed out and the group has been reconciled *)
TimedOutAndReconciled == Reconciled /\ result.timed_out

NamesRemediation(msg) ==
    /\ Contains(msg, <<"--isolated-timeout">>)
    /\ Contains(msg, <<"isolated_timeout ini">>)
    /\ Contains(msg, <<"@pytest.mark.isolated(timeout=N)">>)

(* C3: when the worker timed out, every test of the group has a failed call
   whose message contains "timed out after N seconds", N the resolved timeout of
   the group, and names the remediation flags *)
C3_TimeoutReported ==
    TimedOutAndReconciled =>
        \A i \in 1..Len(LastItems) :
            /\ CallReported(LastItems[i], "failed", FALSE,
                            <<"timed out after", ToString(LastGroup.timeout), "seconds">>)
            /\ NamesRemediation(PhaseReports(LastItems[i], "call")[1].longrepr)

(* a report replayed from a record carries the duration the worker measured *)
Replayed(rep) == rep.duration # DefaultDuration

(* C4: when the worker timed out, no record of its file is replayed and every
   test of the group gets the synthesized timeout outcome, also a test whose
   phases were recorded as passed *)
C4_TimeoutPrecedence ==
    TimedOutAndReconciled =>
        \A i \in 1..Len(LastItems) :
            /\ \A j \in 1..Len(ReportsOf(LastItems[i])) : ~Replayed(ReportsOf(LastItems[i])[j])
            /\ Len(PhaseReports(LastItems[i], "call")) = 1
            /\ Contains(PhaseReports(LastItems[i], "call")[1].longrepr, <<"timed out after">>)

(* C5: after a group has been reconciled every test of it has a report *)
C5_NoTestDisappears ==
    Reconciled => \A i \in 1..Len(LastItems) : ReportsOf(LastItems[i]) # <<>>

(* a group has just been processed and the failure counter is at the maximum *)
MaxfailAfterGroup ==
    /\ launched # <<>>
    /\ pc = "loop"
    /\ native_run = <<>>
    /\ MaxfailReached(testsfailed, option.maxfail)

(* C6: when the failure counter has reached the configured maximum after a
   group has been processed, however the group ended, no further worker is
   started, no native test is run, and the loop returns 1 *)
C6_EarlyTermination ==
    /\ [][MaxfailAfterGroup =>
            (launched' = launched /\ native_run' = native_run /\ ret' = 1)]_vars
    /\ [](pc = "stopped" => ret = 1)

(* the expected-failure crash: negative exit code, a record in the file, every
   test of the group xfail-marked *)
XfailCrashCase ==
    /\ result.returncode < 0
    /\ parsed # <<>>
    /\ AllXfail(LastItems)

(* the three reports _emit_failure_for_items makes for an xfail-marked test *)
ReportedAsExpectedFailure(nid, piece) ==
    /\ Len(ReportsOf(nid)) = 3
    /\ \A j \in 1..3 : ReportsOf(nid)[j].when = Phases[j] /\ ~Replayed(ReportsOf(nid)[j])
    /\ ReportsOf(nid)[1].outcome = "passed"
    /\ ReportsOf(nid)[3].outcome = "passed"
    /\ CallReported(nid, "skipped", TRUE, piece)

(* C7: in the expected-failure crash case every test of the group is reported
   as an expected failure whose message names the signal, no record is
   replayed, and the failure counter is left as it was *)
C7_XfailCrash ==
    /\ [](Reconciled /\ XfailCrashCase =>
            \A i \in 1..Len(LastItems) :
                ReportedAsExpectedFailure(LastItems[i],
                                          <<"signal", ToString(-result.returncode)>>))
    /\ [][pc = "handle" /\ XfailCrashCase => testsfailed' = testsfailed]_vars

(* C7 witness: a worker killed by a signal in the body of an xfail-marked test
   that had recorded its setup, reconciled *)
C7_Witness ==
    /\ Reconciled
    /\ XfailCrashCase
    /\ ~result.timed_out
    /\ result.returncode = -11
    /\ IsCrashed(parsed, LastItems[1])
    /\ ReportedAsExpectedFailure(LastItems[1], <<"signal", "11">>)
    /\ testsfailed = 0

(* the collection-level crash: no timeout, no record *)
CollectionCrashCase == Reconciled /\ ~result.timed_out /\ parsed = <<>>

CollectionCrashMessage(msg) ==
    /\ Contains(msg, <<"exited with code", ToString(result.returncode)>>)
    /\ Contains(msg, <<"and produced no per-test report.">>)
    /\ StderrText(result.stderr) # ""
        => Contains(msg, <<"Subprocess stderr:", StderrText(result.stderr)>>)

(* C8 (as stated): in the collection-level crash case, for every exit code, a
   failed call is synthesized for every test of the group; its message cites
   the exit code, says that no per-test report was produced, and ends with the
   captured stderr text when there is some *)
C8_CollectionCrash ==
    CollectionCrashCase =>
        \A i \in 1..Len(LastItems) :
            /\ CallReported(LastItems[i], "failed", FALSE, <<>>)
            /\ CollectionCrashMessage(PhaseReports(LastItems[i], "call")[1].longrepr)

(* C8 (amended): the same, with the call of an xfail-marked test synthesized as
   skipped with the expected-failure indicator instead of failed *)
C8_CollectionCrashXfail ==
    CollectionCrashCase =>
        \A i \in 1..Len(LastItems) :
            /\ CallReported(LastItems[i],
                            IF IsXfail(LastItems[i]) THEN "skipped" ELSE "failed",
                            IsXfail(LastItems[i]), <<>>)
            /\ ~Replayed(PhaseReports(LastItems[i], "call")[1])
            /\ CollectionCrashMessage(PhaseReports(LastItems[i], "call")[1].longrepr)

(* C8 witness: a worker that exited with code 0 and wrote nothing, reconciled *)
C8_Witness ==
    /\ CollectionCrashCase
    /\ result.returncode = 0
    /\ Len(LastItems) = 3
    /\ \A i \in 1..3 : ~IsXfail(LastItems[i])
    /\ \A i \in 1..3 : CallReported(LastItems[i], "failed", FALSE, <<"exited with code", "0">>)

(* the lines of a file that are neither blank nor malformed *)
WellFormed(lines) == SelectSeq(lines, LAMBDA line : IsJson(Strip(line)))

(* C9: parsing the file of a worker that has ended raises no error, whatever
   blank or malformed lines it holds: the result set is the one built from the
   well-formed lines only (the empty one when there is none) *)
C9_ParseSkipsBadLines ==
    [][pc = "wait" /\ ~worker.alive =>
            /\ pc' = "handle"
            /\ parsed' = ParseLines(WellFormed(file.lines), <<>>).results]_vars

(* the tests of a group whose bodies have run, up to the i-th *)
BodiesRun(g, i) == {j \in 1..i : observed[g.nodeids[j]] # 0}

(* C10: a test body reads the process-global counter as incremented by the
   bodies of its own group only: what tests of other groups did to it is never
   seen (a test that is the first of its group to run reads 1) *)
C10_GroupIsolation ==
    \A n \in 1..Len(launched) :
        \A i \in 1..Len(launched[n].nodeids) :
            observed[launched[n].nodeids[i]] # 0
                => observed[launched[n].nodeids[i]] = Cardinality(BodiesRun(launched[n], i))

(* C10 witness: two groups have run, a test body in each, and each read 1 *)
C10_Witness ==
    /\ Len(launched) = 2
    /\ launched[1].group # launched[2].group
    /\ observed[launched[1].nodeids[1]] = 1
    /\ observed[launched[2].nodeids[1]] = 1

----------------------------------------------------------------------------
(* Planning: vocabulary *)

(* the item is planned into a group; the key the planner gave it *)
Planned(nid) == \E i \in 1..Len(cfg_groups) : nid \in Range(cfg_groups[i].val)
KeyOf(nid) == cfg_groups[CHOOSE i \in 1..Len(cfg_groups) : nid \in Range(cfg_groups[i].val)].key

(* the tests of the final list with this key, in the order of the final list *)
MembersOf(key) == SelectSeq(session_items, LAMBDA nid : Planned(nid) /\ KeyOf(nid) = key)

(* the place in the final list of the first test passed to the n-th worker *)
FirstAppearance(n) ==
    CHOOSE i \in 1..Len(session_items) :
        /\ session_items[i] \in Range(launched[n].nodeids)
        /\ \A j \in 1..(i - 1) : session_items[j] \notin Range(launched[n].nodeids)

Count(seq, x) == Len(SelectSeq(seq, LAMBDA y : y = x))

(* C11: every worker is passed all the tests of the final list that have its
   group's key, in the order of the final list; no key gets two workers; the
   workers are started in the order in which their first test appears in the
   final list; and at the return every key of the final list has had its worker *)
C11_GroupCohesionOrder ==
    /\ \A n \in 1..Len(launched) :
        /\ launched[n].nodeids # <<>>
        /\ launched[n].nodeids = MembersOf(launched[n].group)
    /\ \A n \in 1..Len(launched) : \A k \in 1..Len(launched) :
        n < k => /\ launched[n].group # launched[k].group
                 /\ FirstAppearance(n) < FirstAppearance(k)
    /\ pc = "returned" =>
        \A i \in 1..Len(session_items) :
            Planned(session_items[i]) =>
                \E n \in 1..Len(launched) : launched[n].group = KeyOf(session_items[i])

(* C11 witness: with the final list in reverse order, the group "g" of three
   tests is run first, its tests in reverse order, and another group after it *)
C11_Witness ==
    /\ pc = "returned"
    /\ session_items = Reverse(NodeIds(collection))
    /\ Len(launched) >= 2
    /\ launched[1].group = "g"
    /\ launched[1].nodeids = <<"b.py::t4", "a.py::t2", "a.py::t1">>

(* C12: no test outside the final list is passed to a worker or run natively;
   no test is passed to a worker and run natively, or twice; and at the return
   every test of the final list has been passed to a worker or run natively *)
C12_Partition ==
    LET in_workers == Flatten([n \in 1..Len(launched) |-> launched[n].nodeids]) IN
    /\ Range(in_workers) \cup Range(native_run) \subseteq Range(session_items)
    /\ \A i \in 1..Len(session_items) :
        /\ Count(in_workers, session_items[i]) + Count(native_run, session_items[i]) <= 1
        /\ pc = "returned" =>
            Count(in_workers, session_items[i]) + Count(native_run, session_items[i]) = 1

(* C12 witness: a test planned into a group was filtered out of the final list;
   of the two tests left one went to a worker and one ran natively *)
C12_Witness ==
    /\ pc = "returned"
    /\ Len(session_items) = 2
    /\ \E i \in 1..Len(collection) :
        Planned(nodeid(collection[i])) /\ nodeid(collection[i]) \notin Range(session_items)
    /\ Len(launched) = 1
    /\ Len(native_run) = 1

(* the tests of the final list that are in no group, in the order of that list *)
NativeTests == SelectSeq(session_items, LAMBDA nid : ~Planned(nid))

IsPrefix(s, t) == Len(s) <= Len(t) /\ SubSeq(t, 1, Len(s)) = s

(* C13: when a native test has run, every group has had its worker, the last
   worker has ended and its group has been reconciled and replayed; and the
   native tests run in the order they have in the final list *)
C13_NativeAfterGroups ==
    /\ native_run # <<>> =>
        /\ AllGroupsLaunched
        /\ ~worker.alive
        /\ gi > Len(groups)
        /\ pc \in {"loop", "returned"}
    /\ IsPrefix(native_run, NativeTests)

(* C13 witness: the two native tests ran, in their order, after the group of
   the isolated test between them had been run and replayed *)
C13_Witness ==
    /\ pc = "returned"
    /\ native_run = <<"n.py::t1", "n.py::t3">>
    /\ Len(launched) = 1
    /\ \E i \in 1..Len(reports) : reports[i].nodeid = "n.py::t2" /\ Replayed(reports[i])

(* the reports emitted by the step *)
NewReports == SubSeq(reports', Len(reports) + 1, Len(reports'))

(* C14: a worker is started only when no worker is alive and, if there was one
   before, after its file has been read and removed and its group handled; and
   reports are emitted only when no worker is alive, for tests of the group
   whose worker was started last *)
C14_StrictSequencing ==
    /\ [][launched' # launched =>
            /\ ~worker.alive
            /\ ~file.exists
            /\ pc = "loop"
            /\ Len(launched') = Len(launched) + 1]_vars
    /\ [][reports' # reports =>
            /\ ~worker.alive
            /\ Len(reports') > Len(reports)
            /\ \A i \in 1..Len(NewReports) : NewReports[i].nodeid \in Range(LastItems)]_vars

(* C14 witness: the second worker is running; the first one has ended, its file
   is gone and its tests have their reports *)
C14_Witness ==
    /\ Len(launched) = 2
    /\ worker.alive
    /\ pc = "wait"
    /\ file.lines # <<>>
    /\ \A i \in 1..Len(launched[1].nodeids) : ReportsOf(launched[1].nodeids[i]) # <<>>
    /\ \A i \in 1..Len(launched[2].nodeids) : ReportsOf(launched[2].nodeids[i]) = <<>>

(* C15: a process that runs with the guard set plans no group and starts no
   worker, and every worker is started with the guard set: a worker is such a
   process, so it starts no worker of its own *)
C15_Reentrancy ==
    /\ environ = "1" => (cfg_groups = <<>> /\ groups = <<>> /\ launched = <<>>)
    /\ \A n \in 1..Len(launched) : launched[n].guard = "1"

(* C15 witness: a process with the guard set was handed three tests that carry
   the isolated marker and has left pytest_runtestloop to pytest's own loop *)
C15_Witness ==
    /\ environ = "1"
    /\ pc = "child"
    /\ \A i \in 1..Len(collection) : get_closest_marker(collection[i]).present
    /\ launched = <<>>

(* the planner has run in the parent, with isolation enabled *)
PlanningDone == pc # "collect" /\ ~IsChild(environ) /\ ~option.no_isolation

(* the item is isolated: it has a closest marker, or everything is isolated *)
Isolated(it) == get_closest_marker(it).present \/ option.isolated

(* the key of an isolated item, by the rule of precedence *)
ExpectedKey(it) ==
    LET m == get_closest_marker(it) IN
    IF m.present /\ m.args # <<>> THEN m.args[1]
    ELSE IF m.present /\ m.kwargs.has_group THEN m.kwargs.group
    ELSE IF it.own.present \/ ~m.present THEN nodeid(it)
    ELSE IF it.cls.present THEN it.parts[1] \o "::" \o it.parts[2]
    ELSE IF it.mod.present THEN it.parts[1]
    ELSE nodeid(it)

(* C16: the planner puts an item into a group exactly when it is isolated, and
   the key of its group is: the explicit group name of its closest marker
   (first positional argument, else the group keyword); else its own nodeid if
   it carries the marker itself or has no marker; else the identifier of its
   class if the class carries the marker; else that of its module if the
   module carries it; else its own nodeid *)
C16_GroupKeyDerivation ==
    PlanningDone =>
        \A i \in 1..Len(collection) :
            /\ Planned(nodeid(collection[i])) <=> Isolated(collection[i])
            /\ Isolated(collection[i]) =>
                /\ KeyOf(nodeid(collection[i])) = ExpectedKey(collection[i])
                /\ Cardinality({k \in 1..Len(cfg_groups) :
                                    nodeid(collection[i]) \in Range(cfg_groups[k].val)}) = 1

(* C16 witness: in one plan a test keyed by a positional group name, one by its
   module, one by its class, and one without any marker by its own nodeid *)
C16_Witness ==
    /\ PlanningDone
    /\ option.isolated
    /\ KeyOf("a.py::t1") = "g" /\ collection[1].own.args = <<"g">>
    /\ KeyOf("a.py::t2") = "a.py" /\ ~collection[2].own.present
    /\ KeyOf("a.py::C::t3") = "a.py::C" /\ ~collection[3].own.present
    /\ KeyOf("b.py::t4") = "b.py::t4" /\ ~get_closest_marker(collection[4]).present

(* the closest marker of the item, if any, names no group *)
NoExplicitGroup(it) ==
    LET m == get_closest_marker(it) IN ~m.present \/ (m.args = <<>> /\ ~m.kwargs.has_group)

(* the item gets the marker from its module only *)
ByModule(it) ==
    ~it.own.present /\ ~it.cls.present /\ it.mod.present /\ NoExplicitGroup(it)

(* the two tests are in the final list and are passed to the same worker *)
RunTogether(a, b) ==
    /\ {a, b} \subseteq Range(session_items)
    /\ \A n \in 1..Len(launched) :
        a \in Range(launched[n].nodeids) <=> b \in Range(launched[n].nodeids)

SameWorker(a, b) ==
    \E n \in 1..Len(launched) : {a, b} \subseteq Range(launched[n].nodeids)

(* C17 (as stated): two isolated tests with no explicit group name are in the
   same group, and passed to the same worker, if they are in the same module,
   and in different groups if they are in different modules *)
C17_DefaultGrouping ==
    PlanningDone =>
        \A i \in 1..Len(collection) : \A j \in 1..Len(collection) :
            LET a == collection[i]
                b == collection[j]
            IN  (i # j /\ Isolated(a) /\ Isolated(b)
                       /\ NoExplicitGroup(a) /\ NoExplicitGroup(b)) =>
                    IF a.parts[1] = b.parts[1]
                    THEN /\ KeyOf(nodeid(a)) = KeyOf(nodeid(b))
                         /\ {nodeid(a), nodeid(b)} \subseteq Range(session_items)
                                => RunTogether(nodeid(a), nodeid(b))
                    ELSE /\ KeyOf(nodeid(a)) # KeyOf(nodeid(b))
                         /\ ~SameWorker(nodeid(a), nodeid(b))

(* C17 (amended): the same for two tests that get the marker from their module
   only; two isolated tests with no explicit group name in different modules
   are in different groups whatever carries their marker *)
C17_ModuleGrouping ==
    PlanningDone =>
        \A i \in 1..Len(collection) : \A j \in 1..Len(collection) :
            LET a == collection[i]
                b == collection[j]
            IN  (i # j /\ Isolated(a) /\ Isolated(b)
                       /\ NoExplicitGroup(a) /\ NoExplicitGroup(b)) =>
                    IF a.parts[1] = b.parts[1]
                    THEN (ByModule(a) /\ ByModule(b)) =>
                            /\ KeyOf(nodeid(a)) = a.parts[1]
                            /\ KeyOf(nodeid(b)) = a.parts[1]
                            /\ {nodeid(a), nodeid(b)} \subseteq Range(session_items)
                                    => RunTogether(nodeid(a), nodeid(b))
                    ELSE /\ KeyOf(nodeid(a)) # KeyOf(nodeid(b))
                         /\ ~SameWorker(nodeid(a), nodeid(b))

(* C17 witness: two tests of a.py and a test of b.py get the marker from their
   modules; the first two were passed to one worker, the third to another *)
C17_Witness ==
    /\ pc = "returned"
    /\ ByModule(collection[1]) /\ ByModule(collection[2]) /\ ByModule(collection[4])
    /\ RunTogether("a.py::t1", "a.py::t2")
    /\ SameWorker("a.py::t1", "a.py::t2")
    /\ \E n \in 1..Len(launched) : launched[n].nodeids = <<"b.py::t4">>

(* the first item, in the order of collection, that the planner puts under the key *)
FirstOfKey(key) ==
    collection[CHOOSE i \in 1..Len(collection) :
        /\ Isolated(collection[i]) /\ ExpectedKey(collection[i]) = key
        /\ \A j \in 1..(i - 1) :
            ~(Isolated(collection[j]) /\ ExpectedKey(collection[j]) = key)]

(* the wait bound of a group by the order of resolution: the timeout of the
   marker of the first item of the group, else --isolated-timeout, else the
   isolated_timeout ini value, else 300 *)
ExpectedTimeout(key) ==
    LET m == get_closest_marker(FirstOfKey(key)) IN
    IF m.present /\ m.kwargs.has_timeout THEN m.kwargs.timeout
    ELSE IF option.timeout_opt # None THEN option.timeout_opt
    ELSE IF option.timeout_ini = "20" THEN 20
    ELSE IF option.timeout_ini = "300" THEN 300
    ELSE 300

(* C18: the worker of every group is started with the wait bound the order of
   resolution gives *)
C18_TimeoutResolution ==
    \A n \in 1..Len(launched) : launched[n].timeout = ExpectedTimeout(launched[n].group)

(* C18 witness: with --isolated-timeout 5, one worker was started with the 2
   seconds of its group's marker and another with the 5 seconds *)
C18_Witness ==
    /\ option.timeout_opt = 5
    /\ \E n \in 1..Len(launched) :
        /\ launched[n].timeout = 2
        /\ get_closest_marker(FirstOfKey(launched[n].group)).kwargs.timeout = 2
    /\ \E n \in 1..Len(launched) : launched[n].timeout = 5

(* m.kwargs.get("timeout") of the item's closest marker, None without one *)
MarkerTimeout(it) ==
    LET m == get_closest_marker(it) IN
    IF m.present /\ m.kwargs.has_timeout THEN m.kwargs.timeout ELSE None

(* C19: the planner records one timeout entry per group key, the one of the
   marker of the first item it met with the key (None if that marker gave no
   timeout), whatever the markers of the later items of the group give *)
C19_FirstWinsTimeout ==
    PlanningDone =>
        /\ Keys(cfg_timeouts) = Keys(cfg_groups)
        /\ Len(cfg_timeouts) = Cardinality(Keys(cfg_timeouts))
        /\ \A k \in 1..Len(cfg_timeouts) :
            cfg_timeouts[k].val = MarkerTimeout(FirstOfKey(cfg_timeouts[k].key))

(* C19 witness: the first item of group "g" names the group without a timeout,
   a later item of the group gives 2 seconds, and the entry of "g" is None *)
C19_Witness ==
    /\ PlanningDone
    /\ collection[1].own.args = <<"g">>
    /\ collection[2].own.kwargs.has_group /\ collection[2].own.kwargs.timeout = 2
    /\ cfg_groups[1] = Entry("g", <<"a.py::t1", "a.py::t2">>)
    /\ DictGet(cfg_timeouts, "g", 0) = None

(* the form that names the exit status c *)
CrashForm(c) ==
    IF c < 0 THEN <<"signal", ToString(-c)>> ELSE <<"exit code", ToString(c)>>

(* in the last group, reconciled, a test crashed (passed setup record, no call
   record) and this test is that one or one that has no record at all *)
CrashedOrNeverRun(nid) ==
    /\ Reconciled
    /\ ~result.timed_out
    /\ \E k \in 1..Len(LastItems) : IsCrashed(parsed, LastItems[k])
    /\ IsCrashed(parsed, nid) \/ nid \notin Keys(parsed)

(* C20: the crash reason of an exit code c names "signal -c" if c < 0 and
   "exit code c" if c >= 0, and never the other form; and the message of the
   call synthesized for a crashed or a never-run test contains the form that
   names the exit code of the worker *)
C20_CrashReasonFormat ==
    /\ \A c \in ExitCodes :
        /\ Contains(_format_crash_reason(c), CrashForm(c))
        /\ c < 0 => ~Contains(_format_crash_reason(c), <<"exit code">>)
        /\ c >= 0 => ~Contains(_format_crash_reason(c), <<"signal">>)
        /\ Contains(_format_crash_message(c, "during test execution", ""), CrashForm(c))
    /\ \A i \in 1..Len(LastItems) :
        CrashedOrNeverRun(LastItems[i]) =>
            /\ Len(PhaseReports(LastItems[i], "call")) = 1
            /\ Contains(PhaseReports(LastItems[i], "call")[1].longrepr,
                        CrashForm(result.returncode))

(* C20 witness: a worker killed by signal 11 in its first test: the message of
   that test and the message of a test that never ran both name signal 11 *)
C20_Witness ==
    /\ result.returncode = -11
    /\ CrashedOrNeverRun(LastItems[1]) /\ IsCrashed(parsed, LastItems[1])
    /\ CrashedOrNeverRun(LastItems[2]) /\ LastItems[2] \notin Keys(parsed)
    /\ ~IsXfail(LastItems[1]) /\ ~IsXfail(LastItems[2])
    /\ Contains(PhaseReports(LastItems[1], "call")[1].longrepr, <<"signal", "11">>)
    /\ Contains(PhaseReports(LastItems[2], "call")[1].longrepr,
                <<"Test did not run -", "Subprocess", "crashed with", "signal", "11">>)

----------------------------------------------------------------------------
(* Reconciliation: vocabulary *)

(* the last group went through the mid-test crash handling and the replay
   (neither the expected-failure crash, nor the timeout, nor the collection
   crash applied), and no later worker has been started *)
ReplayDone ==
    /\ Reconciled
    /\ ~result.timed_out
    /\ parsed # <<>>
    /\ ~XfailCrashApplies(result.returncode, parsed, LastItems)

(* what the replay step (_handle_mid_test_crash, then _emit_all_results) emits
   for the last group over a result set *)
ReplayStep(res) ==
    LET mid == _handle_mid_test_crash(result.returncode, result.stderr, LastItems, res)
    IN  Then(mid.emission, _emit_all_results(LastItems, mid.results))

(* C21: after the replay step has run over the result set of a group, running
   it again over the set it left increments the failure counter by nothing *)
C21_IdempotentReplay ==
    ReplayDone => ReplayStep(results).fails = 0

----------------------------------------------------------------------------
(* The process tree of a worker: a test body may start processes of its own,
   which live until they end by themselves; subprocess.run(timeout=...) kills
   the process it started and nothing else (lines 92-113) *)

\* processes one worker's tests start, at most
MaxProcs == 2

ProcsOf(n) == {p \in procs : p.owner = n}

WorkerSpawn ==
    /\ pc = "wait"
    /\ worker.alive
    /\ Cardinality(ProcsOf(Len(launched))) < MaxProcs
    /\ procs' = procs \cup {[owner |-> Len(launched),
                             pid |-> Cardinality(ProcsOf(Len(launched))) + 1]}
    /\ UNCHANGED <<report, environ, collection, option, cfg_groups, cfg_timeouts,
                   session_items, testsfailed, groups, normal_items, default_timeout, pc, gi,
                   file, worker, result, results, reports, launched, native_run, observed,
                   ret, parsed>>

ProcExit ==
    /\ \E p \in procs : procs' = procs \ {p}
    /\ UNCHANGED <<report, environ, collection, option, cfg_groups, cfg_timeouts,
                   session_items, testsfailed, groups, normal_items, default_timeout, pc, gi,
                   file, worker, result, results, reports, launched, native_run, observed,
                   ret, parsed>>

InitTree ==
    /\ Init
    /\ environ = ""
    /\ collection \in {OneGroup({}), TwoGroups({})}

NextTree ==
    \/ pytest_collection_modifyitems
    \/ StartLoop
    \/ Launch
    \/ WorkerPhase
    \/ WorkerSpawn
    \/ ProcExit
    \/ WorkerExit
    \/ WorkerTimeout
    \/ ParseResults
    \/ HandleTimeout
    \/ HandleResults
    \/ Return

SpecTree == InitTree /\ [][NextTree]_vars

(* the worker whose wait expired last: the one launched last, or the one
   before it while its successor runs *)
TimedOutWorker == IF worker.alive THEN Len(launched) - 1 ELSE Len(launched)

(* C22: from the moment a worker's wait has expired, through the launch of the
   next group and up to the end of the run, no process started by that worker
   is alive *)
C22_NoOrphans ==
    result.timed_out => ProcsOf(TimedOutWorker) = {}

----------------------------------------------------------------------------
(* The side channel on its own: the worker's hook is called with one report,
   writes its line, the worker ends and the parent parses the file *)

TestReports ==
    {TestReport("m.py::t1", when, outcome, longrepr, duration, capstdout, capstderr,
                keywords, sections, user_properties, wasxfail) :
        when \in Range(Phases),
        outcome \in {"passed", "failed", "skipped"},
        longrepr \in {"", "AssertionError"},
        duration \in {DefaultDuration, WorkerDuration},
        capstdout \in {"", "out"},
        capstderr \in {"", "err"},
        keywords \in {<<>>, <<"t1", "m.py">>},
        sections \in {List(<<>>), List(<<Tuple(<<"Captured log call", "text">>)>>)},
        user_properties \in {List(<<>>), List(<<Tuple(<<"key", "value">>)>>)},
        wasxfail \in BOOLEAN}

InitCodec ==
    /\ environ = ""
    /\ collection = OneGroup({})
    /\ option \in {o \in Options : o.maxfail = 0}
    /\ session_items = NodeIds(collection)
    /\ cfg_groups = Plan(collection, option).groups
    /\ cfg_timeouts = Plan(collection, option).timeouts
    /\ testsfailed = 0
    /\ groups = FilterGroups(cfg_groups, session_items, <<>>)
    /\ normal_items = <<>>
    /\ default_timeout = DefaultTimeout(option)
    /\ pc = "wait"
    /\ gi = 1
    /\ file = [exists |-> TRUE, lines |-> <<>>]
    /\ worker = FreshProcess(NoWorker)
    /\ result = NoResult
    /\ results = <<>>
    /\ reports = <<>>
    /\ launched = <<[group |-> groups[1].key, nodeids |-> groups[1].val,
                     timeout |-> default_timeout, guard |-> ChildEnv(environ),
                     cmd |-> Cmd(option, groups[1].val)]>>
    /\ native_run = <<>>
    /\ observed = [nid \in Range(NodeIds(collection)) |-> 0]
    /\ ret = None
    /\ parsed = <<>>
    /\ procs = {}
    /\ report \in TestReports

(* reporting.py lines 17-39 *)
LogReport ==
    /\ pc = "wait"
    /\ worker.alive
    /\ file.lines = <<>>
    /\ file' = [file EXCEPT !.lines = Append(@, json_dumps(RecOf(report)))]
    /\ UNCHANGED <<procs, report, environ, collection, option, cfg_groups, cfg_timeouts,
                   session_items, testsfailed, groups, normal_items, default_timeout, pc, gi,
                   worker, result, results, reports, launched, native_run, observed, ret,
                   parsed>>

NextCodec ==
    \/ LogReport
    \/ WorkerDie
    \/ ParseResults

SpecCodec == InitCodec /\ [][NextCodec]_vars

(* what the parent parsed for the report's test and phase *)
ParsedRecord == DictGet(DictGet(parsed, report.nodeid, <<>>), report.when, <<>>)

(* C23: the record the worker wrote as one line of the side channel is parsed
   back equal field for field *)
C23_RoundTrip ==
    parsed # <<>> => ParsedRecord = RecOf(report)

----------------------------------------------------------------------------
(* The two flags *)

(* C24: with --no-isolation the group mapping is empty, no worker is started,
   and the selected tests, the marked ones too, run in the parent in the order
   of the final list, all of them by the time the loop returns *)
C24_NoIsolation ==
    option.no_isolation =>
        /\ cfg_groups = <<>>
        /\ groups = <<>>
        /\ launched = <<>>
        /\ IsPrefix(native_run, session_items)
        /\ pc = "returned" => native_run = session_items

(* C24 witness: the loop has returned with --no-isolation; tests that carry the
   marker are among those that ran in the parent *)
C24_Witness ==
    /\ option.no_isolation
    /\ pc = "returned"
    /\ Len(native_run) = Len(collection)
    /\ \E i \in 1..Len(collection) :
        /\ collection[i].own.present
        /\ nodeid(collection[i]) \in Range(native_run)
    /\ \E i \in 1..Len(collection) :
        /\ ~collection[i].own.present /\ collection[i].mod.present
        /\ nodeid(collection[i]) \in Range(native_run)

(* every selected test is in a group and none runs in the parent; a test
   without a marker has its own nodeid as key and is alone in its group *)
AllIsolated ==
    /\ \A nid \in Range(session_items) : Planned(nid)
    /\ native_run = <<>>
    /\ normal_items = <<>>
    /\ \A i \in 1..Len(collection) :
        ~get_closest_marker(collection[i]).present =>
            /\ KeyOf(nodeid(collection[i])) = nodeid(collection[i])
            /\ DictGet(cfg_groups, nodeid(collection[i]), <<>>) = <<nodeid(collection[i])>>
            /\ \A n \in 1..Len(launched) :
                nodeid(collection[i]) \in Range(launched[n].nodeids) =>
                    launched[n].nodeids = <<nodeid(collection[i])>>

(* C25: with --isolated, and --no-isolation not given, once the parent has
   planned every selected test is in a group, none runs in the parent, and a
   test without a marker is keyed by its own nodeid and alone in its group *)
C25_IsolateEverything ==
    (PlanningDone /\ option.isolated) => AllIsolated

----------------------------------------------------------------------------
(* The order of the reports *)

PositionIn(seq, x) == CHOOSE i \in 1..Len(seq) : seq[i] = x

(* C26: the reports of the tests of one group are emitted test by test in the
   order the tests have in the group: a report of a test never comes after a
   report of a later test of its group *)
C26_TestOrderOfReports ==
    \A n \in 1..Len(launched) :
        \A i, j \in 1..Len(reports) :
            (/\ i < j
             /\ reports[i].nodeid \in Range(launched[n].nodeids)
             /\ reports[j].nodeid \in Range(launched[n].nodeids))
            => PositionIn(launched[n].nodeids, reports[i].nodeid)
                   <= PositionIn(launched[n].nodeids, reports[j].nodeid)

PhaseRank(when) == IF when = "setup" THEN 1 ELSE IF when = "call" THEN 2 ELSE 3

(* the reports of the test are in the order setup, call, teardown, each phase
   at most once *)
InPhaseOrder(nid) ==
    \A i, j \in 1..Len(ReportsOf(nid)) :
        i < j => PhaseRank(ReportsOf(nid)[i].when) < PhaseRank(ReportsOf(nid)[j].when)

(* C27: on every path of the reconciliation the reports of one test are
   emitted in the order setup, call, teardown *)
C27_PhaseOrderPerTest ==
    \A nid \in Range(session_items) : InPhaseOrder(nid)

(* C27 witness: one group in which a test was replayed from its three records,
   the next test crashed and got its three reports from the crash handling,
   and the last never ran and got three synthesized reports *)
C27_Witness ==
    /\ ReplayDone
    /\ Len(LastItems) = 3
    /\ RecordedPhases(LastItems[1]) = Phases
    /\ IsCrashed(parsed, LastItems[2])
    /\ LastItems[3] \notin Keys(parsed)
    /\ \A i \in 1..3 : Len(ReportsOf(LastItems[i])) = 3

----------------------------------------------------------------------------
(* Crash detection and the reports of the crashed tests *)

(* the recorded setup of the test has the outcome passed *)
SetupPassed(nid) ==
    /\ "setup" \in Range(RecordedPhases(nid))
    /\ DictGet(DictGet(parsed, nid, <<>>), "setup", <<>>).outcome = "passed"

(* C28: over the result set the parent has parsed, _detect_crashed_tests
   returns as crashed exactly the tests of the group with a recorded phase, no
   call record and a setup record with outcome passed; as never-run exactly the
   tests of the group without any record if some test is crashed, and no test
   if none is crashed *)
C28_CrashDetectionRule ==
    pc = "handle" =>
        LET d == _detect_crashed_tests(group_items, results)
            no_record == {nid \in Range(group_items) : RecordedPhases(nid) = <<>>}
        IN  /\ results = parsed
            /\ \A nid \in Range(group_items) :
                nid \in Range(d.crashed_items) <=>
                    /\ RecordedPhases(nid) # <<>>
                    /\ "call" \notin Range(RecordedPhases(nid))
                    /\ SetupPassed(nid)
            /\ Range(d.crashed_items) # {} => Range(d.not_run_items) = no_record
            /\ Range(d.crashed_items) = {} => d.not_run_items = <<>>

(* C28 witness: the first test has a failed setup and no call and is not
   crashed, the second has a passed setup and no call and is crashed, the third
   has no record and is never-run *)
C28_Witness ==
    /\ pc = "handle"
    /\ Len(group_items) = 3
    /\ RecordedPhases(group_items[1]) = <<"setup", "teardown">>
    /\ ~SetupPassed(group_items[1])
    /\ RecordedPhases(group_items[2]) = <<"setup">>
    /\ _detect_crashed_tests(group_items, results) =
            [crashed_items |-> <<group_items[2]>>, not_run_items |-> <<group_items[3]>>]

(* the step is the mid-test crash handling and the replay of a group *)
ReplayStepTaken ==
    /\ pc = "handle"
    /\ pc' # "handle"
    /\ ~XfailCrashApplies(result.returncode, results, group_items)
    /\ ~result.timed_out
    /\ results # <<>>

(* the three reports of a crashed test: the recorded setup, the call with the
   crash message, skipped as an expected failure under xfail and failed
   otherwise, and a synthesized passed teardown *)
CrashedReports(nid, reps) ==
    /\ Len(reps) = 3
    /\ reps[1].when = "setup"
    /\ reps[1].outcome = DictGet(DictGet(parsed, nid, <<>>), "setup", <<>>).outcome
    /\ reps[1].duration = DictGet(DictGet(parsed, nid, <<>>), "setup", <<>>).duration
    /\ reps[2].when = "call"
    /\ Contains(reps[2].longrepr, <<"crashed with">>)
    /\ Contains(reps[2].longrepr, <<"during test execution.">>)
    /\ reps[2].outcome = (IF IsXfail(nid) THEN "skipped" ELSE "failed")
    /\ reps[2].wasxfail = IsXfail(nid)
    /\ reps[3].when = "teardown"
    /\ reps[3].outcome = "passed"
    /\ reps[3].duration = DefaultDuration

(* the tests of the sequence that have a failed call report among the reports *)
FailedCalls(nids, reps) ==
    {nid \in Range(nids) :
        \E i \in 1..Len(reps) :
            reps[i].nodeid = nid /\ reps[i].when = "call" /\ reps[i].outcome = "failed"}

(* C29: the step that handles a mid-test crash emits for every crashed test
   its recorded setup, a call with the crash message (skipped with the
   expected-failure indicator under xfail, failed otherwise) and a synthesized
   passed teardown; the failure counter grows by one for every test of the
   group reported with a failed call, so by one for a crashed test reported
   failed and by nothing for one reported as expected failure *)
C29_CrashedTestEmission ==
    [][ReplayStepTaken =>
            /\ \A nid \in Range(group_items) :
                IsCrashed(parsed, nid) => CrashedReports(nid, ReportsOf(nid)')
            /\ testsfailed' - testsfailed = Cardinality(FailedCalls(group_items, reports'))
       ]_vars

(* C29 witness: a crashed test under xfail was reported as an expected failure
   and did not count; the one failure counted is that of the test after it,
   which never ran *)
C29_Witness ==
    /\ ReplayDone
    /\ \E nid \in Range(LastItems) :
        /\ IsCrashed(parsed, nid)
        /\ IsXfail(nid)
        /\ CallReported(nid, "skipped", TRUE, <<"crashed with">>)
    /\ testsfailed = 1

----------------------------------------------------------------------------
(* _emit_all_results on its own: the replay of any result set over the first
   two tests of a group of three *)

(* the records of one test: per phase an outcome, or "none" for no record *)
NodeResultsOf(nid, setup, call, teardown) ==
    (IF setup = "none" THEN <<>>
     ELSE <<Entry("setup", Record(nid, "setup", setup, LongreprOf(setup),
                                  WorkerDuration, FALSE))>>)
    \o (IF call = "none" THEN <<>>
        ELSE <<Entry("call", Record(nid, "call", call, LongreprOf(call),
                                    WorkerDuration, FALSE))>>)
    \o (IF teardown = "none" THEN <<>>
        ELSE <<Entry("teardown", Record(nid, "teardown", teardown, LongreprOf(teardown),
                                        WorkerDuration, FALSE))>>)

NodeResultSets(nid) ==
    {NodeResultsOf(nid, setup, call, teardown) :
        setup \in {"none", "passed", "failed", "skipped"},
        call \in {"none", "passed", "failed"},
        teardown \in {"none", "passed"}}

ResultSets(nids) ==
    {(IF n1 = <<>> THEN <<>> ELSE <<Entry(nids[1], n1)>>)
     \o (IF n2 = <<>> THEN <<>> ELSE <<Entry(nids[2], n2)>>) :
        n1 \in NodeResultSets(nids[1]), n2 \in NodeResultSets(nids[2])}

InitReplay ==
    /\ environ = ""
    /\ collection = OneGroup({})
    /\ option \in {o \in Options : o.maxfail = 0}
    /\ session_items = NodeIds(collection)
    /\ cfg_groups = Plan(collection, option).groups
    /\ cfg_timeouts = Plan(collection, option).timeouts
    /\ testsfailed = 0
    /\ groups = FilterGroups(cfg_groups, session_items, <<>>)
    /\ normal_items = <<>>
    /\ default_timeout = DefaultTimeout(option)
    /\ pc = "replay"
    /\ gi = 1
    /\ file = NoFile
    /\ worker = NoWorker
    /\ result = NoResult
    /\ results \in ResultSets(NodeIds(collection))
    /\ reports = <<>>
    /\ launched = <<[group |-> groups[1].key, nodeids |-> groups[1].val,
                     timeout |-> default_timeout, guard |-> ChildEnv(environ),
                     cmd |-> Cmd(option, groups[1].val)]>>
    /\ native_run = <<>>
    /\ observed = [nid \in Range(NodeIds(collection)) |-> 0]
    /\ ret = None
    /\ parsed = results
    /\ procs = {}
    /\ report = NoReport

(* line 521 *)
EmitAllResults ==
    /\ pc = "replay"
    /\ Emit(_emit_all_results(group_items, results))
    /\ pc' = "replayed"
    /\ UNCHANGED <<procs, report, environ, collection, option, cfg_groups, cfg_timeouts,
                   session_items, groups, normal_items, default_timeout, gi, file, worker,
                   result, results, launched, native_run, observed, ret, parsed>>

NextReplay == EmitAllResults

SpecReplay == InitReplay /\ [][NextReplay]_vars

(* the one call report of a test whose call record is missing *)
MissingCallReported(nid) ==
    /\ Len(PhaseReports(nid, "call")) = 1
    /\ PhaseReports(nid, "call")[1].outcome = "failed"
    /\ Contains(PhaseReports(nid, "call")[1].longrepr,
                <<"Missing 'call' phase result from subprocess for">>)

(* C30: in the replay, for a test of the result set, a phase without a record
   gets no report, except the call of a test whose setup record has outcome
   passed: it gets one failed call report with a descriptive message; and the
   failure counter has grown by one for every test reported with a failed
   call, so by one for such a missing call and by nothing for a missing phase
   without a report *)
C30_MissingCallInReplay ==
    pc = "replayed" =>
        /\ \A nid \in Keys(results) \cap Range(group_items) :
            \A when \in Range(Phases) \ Range(RecordedPhases(nid)) :
                IF when = "call" /\ SetupPassed(nid)
                THEN MissingCallReported(nid)
                ELSE PhaseReports(nid, when) = <<>>
        /\ testsfailed = Cardinality(FailedCalls(group_items, reports))

(* C30 witness: the first test has a passed setup and no call record and was
   reported with a failed call for the missing record, the one failure counted;
   the second has a failed setup and no call record and got no call report *)
C30_Witness ==
    /\ pc = "replayed"
    /\ RecordedPhases(group_items[1]) = <<"setup", "teardown">>
    /\ SetupPassed(group_items[1])
    /\ MissingCallReported(group_items[1])
    /\ RecordedPhases(group_items[2]) = <<"setup", "teardown">>
    /\ ~SetupPassed(group_items[2])
    /\ PhaseReports(group_items[2], "call") = <<>>
    /\ testsfailed = 1

----------------------------------------------------------------------------
(* The replay and the accounting *)

(* the recorded setup of the test has the outcome failed *)
SetupFailed(nid) ==
    /\ "setup" \in Range(RecordedPhases(nid))
    /\ DictGet(DictGet(parsed, nid, <<>>), "setup", <<>>).outcome = "failed"

(* the tests of the last group left to the replay by the crash handling *)
ReplayedTests == Range(LastItems) \cap Keys(results)

(* C31: every test replayed from its records has one report per recorded
   phase, for that test, with the recorded phase, outcome and expected-failure
   flag; a failed setup is reported as a failed setup, and the test has no
   call report *)
C31_ReplayFidelity ==
    ReplayDone =>
        \A nid \in ReplayedTests :
            /\ ReportedAsRecorded(nid)
            /\ SetupFailed(nid) =>
                /\ Len(PhaseReports(nid, "setup")) = 1
                /\ PhaseReports(nid, "setup")[1].outcome = "failed"
                /\ PhaseReports(nid, "call") = <<>>

(* C31 witness: of two replayed tests one has a failed setup, reported as
   such and without a call report, the other a call recorded with the
   expected-failure flag, reported with it *)
C31_Witness ==
    /\ ReplayDone
    /\ \E nid \in ReplayedTests :
        /\ SetupFailed(nid)
        /\ PhaseReports(nid, "setup")[1].outcome = "failed"
        /\ PhaseReports(nid, "call") = <<>>
    /\ \E nid \in ReplayedTests :
        /\ Len(PhaseReports(nid, "call")) = 1
        /\ PhaseReports(nid, "call")[1].wasxfail
        /\ PhaseReports(nid, "call")[1].outcome = "skipped"

(* the test was handled by the mid-test crash step: crashed, or never run
   behind a crashed one *)
HandledByCrashStep(nid) ==
    \/ IsCrashed(parsed, nid)
    \/ /\ nid \notin Keys(parsed)
       /\ \E other \in Range(LastItems) : IsCrashed(parsed, other)

(* C32: in one run every (test, phase) pair has at most one report, whichever
   path handled the group; and the tests the mid-test crash step handled are
   no longer in the result set the replay works on *)
C32_NoDoubleProcessing ==
    /\ \A nid \in Range(session_items) :
        \A when \in Range(Phases) : Len(PhaseReports(nid, when)) <= 1
    /\ ReplayDone =>
        \A nid \in Range(LastItems) : HandledByCrashStep(nid) => nid \notin Keys(results)

(* C32 witness: the run is over; one group had a replayed, a crashed and a
   never-run test, each reported once per phase, and the crashed and the
   never-run one are out of the result set *)
C32_Witness ==
    /\ ReplayDone
    /\ pc = "returned"
    /\ Len(LastItems) = 3
    /\ LastItems[1] \in Keys(results)
    /\ IsCrashed(parsed, LastItems[2]) /\ LastItems[2] \notin Keys(results)
    /\ LastItems[3] \notin Keys(parsed)
    /\ \A i \in 1..3 : \A when \in Range(Phases) : Len(PhaseReports(LastItems[i], when)) = 1

----------------------------------------------------------------------------
(* The side-channel file *)

(* C33: the step that starts a worker finds no side-channel file of an
   earlier group and creates an empty one; the file exists when the worker has
   ended, however it ended; and a step that emits reports of a group finds the
   file of the group deleted and leaves it so *)
C33_FileLifecycle ==
    [][/\ Len(launched') > Len(launched) =>
            /\ ~file.exists
            /\ file' = [exists |-> TRUE, lines |-> <<>>]
       /\ (pc' = "wait" /\ ~worker'.alive) => file'.exists
       /\ reports' # reports => (~file.exists /\ ~file'.exists)
      ]_vars

(* C33 witness: the worker of the second group runs with its file, after the
   first worker was killed at its timeout in the middle of a run and the
   reports of its group were emitted *)
C33_Witness ==
    /\ Len(launched) = 2
    /\ pc = "wait"
    /\ worker.alive
    /\ file.exists
    /\ result.timed_out
    /\ reports # <<>>

----------------------------------------------------------------------------
(* The worker's command line for any parent invocation of up to MaxArgs
   options and paths *)

\* options and paths on the parent's command line, at most
MaxArgs == 3

(* what a command line is made of: the arguments of one option or path, and
   whether the option is one of those to forward *)
ArgUnit(forwarded, args) == [forwarded |-> forwarded, args |-> args]

ArgUnits ==
    {ArgUnit(TRUE, <<<<"-v">>>>),
     ArgUnit(TRUE, <<<<"--tb">>, <<"short">>>>),
     ArgUnit(TRUE, <<<<"--capture", "=", "no">>>>),
     ArgUnit(FALSE, <<<<"--unknown-option">>>>),
     ArgUnit(FALSE, <<<<"-k">>, <<"expr">>>>),
     ArgUnit(FALSE, <<<<"tests/">>>>)}

CommandLines == UNION {[1..k -> ArgUnits] : k \in 0..MaxArgs}

ArgsOf(units) == Flatten([k \in 1..Len(units) |-> units[k].args])
ForwardedOf(units) ==
    Flatten([k \in 1..Len(units) |-> IF units[k].forwarded THEN units[k].args ELSE <<>>])

InitCmd ==
    /\ environ = ""
    /\ collection = OneGroup({})
    /\ option \in {[o EXCEPT !.args = ArgsOf(units)] :
                        o \in {o \in Options : o.maxfail = 0}, units \in CommandLines}
    /\ session_items = NodeIds(collection)
    /\ cfg_groups = <<>>
    /\ cfg_timeouts = <<>>
    /\ testsfailed = 0
    /\ groups = <<>>
    /\ normal_items = <<>>
    /\ default_timeout = DEFAULT_TIMEOUT
    /\ pc = "collect"
    /\ gi = 1
    /\ file = NoFile
    /\ worker = NoWorker
    /\ result = NoResult
    /\ results = <<>>
    /\ reports = <<>>
    /\ launched = <<>>
    /\ native_run = <<>>
    /\ observed = [nid \in Range(NodeIds(collection)) |-> 0]
    /\ ret = None
    /\ parsed = <<>>
    /\ procs = {}
    /\ report = NoReport

NextCmd ==
    \/ pytest_collection_modifyitems
    \/ StartLoop
    \/ Launch

SpecCmd == InitCmd /\ [][NextCmd]_vars

(* C34: the command line of a worker is the interpreter invocation, then the
   arguments of the allow-listed options of the parent's command line, with
   their values and in their order and nothing else of it, then the root
   directory override, then the nodeids of the group in the order of the group *)
C34_WorkerCommandLine ==
    \A n \in 1..Len(launched) :
        \A units \in CommandLines :
            option.args = ArgsOf(units) =>
                launched[n].cmd =
                    <<<<"python">>, <<"-u">>, <<"-m">>, <<"pytest">>>>
                    \o ForwardedOf(units)
                    \o <<<<"--rootdir">>, <<"/project">>>>
                    \o [i \in 1..Len(launched[n].nodeids) |-> <<launched[n].nodeids[i]>>]

(* C34 witness: the parent was run with "-k expr --tb short tests/"; the
   worker got "--tb short" and neither the expression nor the path *)
C34_Witness ==
    /\ Len(launched) = 1
    /\ option.args = <<<<"-k">>, <<"expr">>, <<"--tb">>, <<"short">>, <<"tests/">>>>
    /\ launched[1].cmd =
            <<<<"python">>, <<"-u">>, <<"-m">>, <<"pytest">>, <<"--tb">>, <<"short">>,
              <<"--rootdir">>, <<"/project">>, <<"m.py::t1">>, <<"m.py::t2">>, <<"m.py::t3">>>>

----------------------------------------------------------------------------
(* The side-channel stream during a worker's run *)

(* the lines are complete records in the order of a run of the group: the
   tests in the order of the group, of each test the setup, the call if the
   setup passed, the teardown *)
InRunOrder(lines) ==
    \A k \in 1..Len(lines) :
        /\ IsJson(lines[k])
        /\ LET rec == json_loads(lines[k]) IN
            IF k = 1
            THEN rec.nodeid = group_items[1] /\ rec.when = "setup"
            ELSE LET prev == json_loads(lines[k - 1]) IN
                 IF prev.when = "teardown"
                 THEN /\ rec.when = "setup"
                      /\ PositionIn(group_items, rec.nodeid)
                            = PositionIn(group_items, prev.nodeid) + 1
                 ELSE /\ rec.nodeid = prev.nodeid
                      /\ rec.when = (IF prev.when = "setup" /\ prev.outcome = "passed"
                                     THEN "call" ELSE "teardown")

(* the same, but for a last line cut short by the kill of the worker *)
InRunOrderButTornEnd(lines) ==
    \/ InRunOrder(lines)
    \/ /\ lines # <<>>
       /\ ~worker'.alive
       /\ ~IsJson(lines[Len(lines)])
       /\ InRunOrder(SubSeq(lines, 1, Len(lines) - 1))

(* the worker has completed a phase in this step *)
PhaseCompleted == <<worker.idx, worker.phase>> # <<worker'.idx, worker'.phase>>

(* a step of a worker's run leaves the lines of the file in place and appends
   at most one; the completion of a phase appends the record of this phase *)
OnlyAppends ==
    /\ IsPrefix(file.lines, file'.lines)
    /\ Len(file'.lines) <= Len(file.lines) + 1
    /\ PhaseCompleted =>
        /\ Len(file'.lines) = Len(file.lines) + 1
        /\ IsJson(file'.lines[Len(file'.lines)])
        /\ json_loads(file'.lines[Len(file'.lines)]).nodeid = group_items[worker.idx]
        /\ json_loads(file'.lines[Len(file'.lines)]).when = worker.phase

(* C35 as stated: during a worker's run the file only grows, every completed
   phase appends its one record before the next phase starts, and whenever the
   worker is killed the file holds a prefix of the records of a complete run *)
C35_AppendOnlyStream ==
    [][(pc = "wait" /\ pc' = "wait") => (OnlyAppends /\ InRunOrder(file'.lines))]_vars

(* C35: the same, where the file of a worker killed in the middle of a write
   holds such a prefix followed by one incomplete line *)
C35_AppendOnlyStreamTornEnd ==
    [][(pc = "wait" /\ pc' = "wait") =>
            (OnlyAppends /\ InRunOrderButTornEnd(file'.lines))]_vars

(* C35 witness: the worker was killed at its timeout in the middle of the
   write of the second test's setup record; the file holds the three records
   of the first test and the incomplete line *)
C35_Witness ==
    /\ pc = "wait"
    /\ ~worker.alive
    /\ result.timed_out
    /\ Len(file.lines) = 4
    /\ InRunOrder(SubSeq(file.lines, 1, 3))
    /\ ~IsJson(file.lines[4])

----------------------------------------------------------------------------
(* Tests that run alone *)

(* the item is isolated and its key is its own nodeid: it carries the marker
   itself, or has no marker at all under --isolated, and names no group *)
KeyedByItself(it) ==
    /\ Isolated(it)
    /\ NoExplicitGroup(it)
    /\ it.own.present \/ ~get_closest_marker(it).present

(* C36: a test keyed by its own nodeid is the only member of its group,
   whatever the other tests declare, and no worker runs it with another test *)
C36_RunsAlone ==
    PlanningDone =>
        \A i \in 1..Len(collection) :
            KeyedByItself(collection[i]) =>
                /\ DictGet(cfg_groups, nodeid(collection[i]), <<>>) = <<nodeid(collection[i])>>
                /\ \A n \in 1..Len(launched) :
                    nodeid(collection[i]) \in Range(launched[n].nodeids) =>
                        launched[n].nodeids = <<nodeid(collection[i])>>

----------------------------------------------------------------------------
(* The failure counter and the status of the run *)

(* the call reports with outcome failed among the reports *)
FailedCallReports(reps) == SelectSeq(reps, LAMBDA r : r.when = "call" /\ r.outcome = "failed")

(* C37: as long as no native test has run, so that every increment is one of
   the orchestrator, the failure counter is the number of call reports with
   outcome failed emitted so far; the counter never decreases; and no test has
   more than one failed call report, so none is counted twice *)
C37_FailureCounterAccounting ==
    [][/\ native_run' = <<>> => testsfailed' = Len(FailedCallReports(reports'))
       /\ testsfailed' >= testsfailed
       /\ \A nid \in Range(session_items) :
            Len(SelectSeq(FailedCallReports(reports'), LAMBDA r : r.nodeid = nid)) <= 1
      ]_vars

(* C37 witness: two groups are done, the first ended by its timeout, the
   second replayed with a failed call; the counter is 2 *)
C37_Witness ==
    /\ Len(launched) = 2
    /\ pc = "loop"
    /\ gi > Len(groups)
    /\ native_run = <<>>
    /\ testsfailed = 2
    /\ Contains(PhaseReports(launched[1].nodeids[1], "call")[1].longrepr, <<"timed out after">>)
    /\ ~result.timed_out
    /\ Len(PhaseReports(launched[2].nodeids[1], "call")) = 1
    /\ PhaseReports(launched[2].nodeids[1], "call")[1].outcome = "failed"
    /\ ~Contains(PhaseReports(launched[2].nodeids[1], "call")[1].longrepr, <<"Subprocess group=">>)

(* a report of the test says failed, or carries the expected-failure indicator *)
ReportedFailedOrXfail(nid) ==
    \E j \in 1..Len(ReportsOf(nid)) :
        ReportsOf(nid)[j].outcome = "failed" \/ ReportsOf(nid)[j].wasxfail

(* C38: when the worker of the last group ended with a negative exit code
   without timing out, and the group has been reconciled, at least one test of
   the group is reported as failed or as an expected failure *)
C38_AbnormalNeverSuccess ==
    (Reconciled /\ result.returncode < 0 /\ ~result.timed_out)
        => \E i \in 1..Len(LastItems) : ReportedFailedOrXfail(LastItems[i])

----------------------------------------------------------------------------
(* The planning and the final list *)

(* C40: every worker is started with the timeout entry the planner recorded
   for its group's key, which is the one of the marker of the first isolated
   item with that key in the order of collection (the global timeout if that
   marker gave none), whether or not that item is among the tests passed to the
   worker and wherever it stands among them *)
C40_PlanningTimeoutApplied ==
    \A n \in 1..Len(launched) :
        LET first == FirstOfKey(launched[n].group) IN
        /\ DictGet(cfg_timeouts, launched[n].group, 0) = MarkerTimeout(first)
        /\ launched[n].timeout =
            (IF MarkerTimeout(first) # None THEN MarkerTimeout(first)
             ELSE DefaultTimeout(option))

(* C40 witness: with --isolated-timeout 5, the worker of group "g" runs
   b.py::t4 alone and was started with the 2 seconds of a.py::t2, which the
   final list does not contain *)
C40_Witness ==
    /\ option.timeout_opt = 5
    /\ "a.py::t2" \notin Range(session_items)
    /\ \E n \in 1..Len(launched) :
        /\ launched[n].group = "g"
        /\ launched[n].nodeids = <<"b.py::t4">>
        /\ nodeid(FirstOfKey("g")) = "a.py::t2"
        /\ launched[n].timeout = 2

====
